---- MODULE Spec2Model ----
(***************************************************************************)
(* A model of mpd-remote: the key dispatcher (Remote.listen_stdin), the    *)
(* mute scope (MuteContext), menu navigation, help mode, the album search  *)
(* session of DenonRC1223.down, the vanity pattern derivation and the      *)
(* speech cache (Speech.prefetch).                                         *)
(***************************************************************************)
EXTENDS Integers, Sequences, FiniteSets, TLC

----------------------------------------------------------------------------
(* Bounds of the model.                                                    *)

\* longest digit query typed in one search session
MaxQuery == 3
\* the pieces the audio of a text is written in
AudioLen == 2
\* how far the down presses of one menu navigation may outnumber its up
\* presses, and the other way round
MaxPresses == 5
\* the number of times another client changes a setting of the server
\* between two snapshots of the scope
MaxChanges == 1
\* the longest queue of the server, for MuteContext.current
MaxQueue == 2
\* the most lines the rendering process writes
MaxLines == 2
\* the most entries of the listing a Library is made from
MaxItems == 2
\* the calls of the backend on its own
MaxCalls == 2

----------------------------------------------------------------------------
(* Keys.  Remote.EXIT_KEYS .. Remote.ENTER_KEYS; "del" stands for "\x7f",  *)
(* "cr" for "\r", "nl" for "\n".                                           *)

EXIT_KEYS == {"ctrl_c", "ctrl_d"}
BACK_KEYS == EXIT_KEYS \cup {"del", "b"}
PREV_KEYS == BACK_KEYS \cup {"left"}
ENTER_KEYS == {"cr", "nl", "right"}

\* the digits a search session is driven with
DigitKeys == {"0", "2"}

\* the key presses the input device delivers in this model; "x" is bound to
\* nothing
Keys ==
  {"ctrl_c", "b", "left", "right", "up", "down", "cr", "i", "m", "l", "t",
   "~", " ", "/", "x"} \cup DigitKeys

----------------------------------------------------------------------------
(* vanity.py: pattern derivation.  A pattern is the sequence of the regex  *)
(* tokens the code concatenates.                                           *)

REGEX_MAP ==
  [d \in {"0", "1", "2", "3", "4", "5", "6", "7", "8", "9"} |->
     CASE d = "1" -> "/"
       [] d = "2" -> "[ABC]"
       [] d = "3" -> "[DEF]"
       [] d = "4" -> "[GHI]"
       [] d = "5" -> "[JKL]"
       [] d = "6" -> "[MNO]"
       [] d = "7" -> "[PQRS]"
       [] d = "8" -> "[TUV]"
       [] d = "9" -> "[WXYZ]"
       [] OTHER -> "."]

MODES == <<"strict", "linear", "fuzzy">>

(* a variant of has_slash that stays False *)
HasSlashNever(numbers) == FALSE

HasSlash(numbers) ==
  \E i \in DOMAIN numbers : numbers[i] \in DOMAIN REGEX_MAP /\ numbers[i] = "1"

RECURSIVE LinearLoop(_, _)
LinearLoop(numbers, prev) ==
  IF numbers = <<>> THEN <<>>
  ELSE LET char == Head(numbers) IN
       IF char \notin DOMAIN REGEX_MAP THEN LinearLoop(Tail(numbers), prev)
       ELSE (IF char = "0" /\ prev = "0" THEN <<"*">> ELSE <<REGEX_MAP[char]>>)
            \o LinearLoop(Tail(numbers), char)

(* a variant that anchors every strict pattern *)
to_regex_linear_anchored(numbers, strict) ==
  LET body == LinearLoop(numbers, "none")
      regex == IF HasSlash(numbers) THEN body ELSE body \o <<".", "*", "/">>
  IN IF strict THEN <<"^">> \o regex ELSE regex

to_regex_linear(numbers, strict) ==
  LET body == LinearLoop(numbers, "none")
      regex == IF HasSlash(numbers) THEN body ELSE body \o <<".", "*", "/">>
  IN IF strict /\ regex[1] # "/" THEN <<"^">> \o regex ELSE regex

RECURSIVE FuzzyLoop(_)
FuzzyLoop(numbers) ==
  IF numbers = <<>> THEN <<>>
  ELSE LET char == Head(numbers) IN
       IF char \notin DOMAIN REGEX_MAP THEN FuzzyLoop(Tail(numbers))
       ELSE <<REGEX_MAP[char], ".", "*">> \o FuzzyLoop(Tail(numbers))

(* a variant of to_regex_fuzzy without the wildcards between the digits *)
to_regex_fuzzy_adjacent(numbers) == to_regex_linear(numbers, FALSE)

to_regex_fuzzy(numbers) ==
  IF HasSlash(numbers) THEN FuzzyLoop(numbers) ELSE FuzzyLoop(numbers) \o <<"/">>

to_regex(numbers, mode) ==
  CASE mode = "linear" -> to_regex_linear(numbers, FALSE)
    [] mode = "strict" -> to_regex_linear(numbers, TRUE)
    [] mode = "fuzzy" -> to_regex_fuzzy(numbers)

(* re.compile: a repetition token needs an atom before it, and a second    *)
(* repetition token directly after one is the error "multiple repeat".     *)
Compiles(regex) ==
  \A i \in DOMAIN regex :
    regex[i] = "*" => (i > 1 /\ regex[i - 1] \notin {"*", "^"})

(* re.IGNORECASE matching of one key character against one atom *)
ToUpper(c) ==
  CASE c = "a" -> "A" [] c = "b" -> "B" [] c = "c" -> "C" [] c = "d" -> "D"
    [] c = "e" -> "E" [] c = "f" -> "F" [] c = "x" -> "X" [] c = "y" -> "Y"
    [] c = "z" -> "Z" [] OTHER -> c

ClassChars(atom) ==
  CASE atom = "[ABC]" -> {"A", "B", "C"}
    [] atom = "[DEF]" -> {"D", "E", "F"}
    [] atom = "[GHI]" -> {"G", "H", "I"}
    [] atom = "[JKL]" -> {"J", "K", "L"}
    [] atom = "[MNO]" -> {"M", "N", "O"}
    [] atom = "[PQRS]" -> {"P", "Q", "R", "S"}
    [] atom = "[TUV]" -> {"T", "U", "V"}
    [] atom = "[WXYZ]" -> {"W", "X", "Y", "Z"}
    [] OTHER -> {}

AtomMatches(atom, c) ==
  CASE atom = "." -> TRUE
    [] atom = "/" -> c = "/"
    [] OTHER -> ToUpper(c) \in ClassChars(atom)

(* does regex[i..] match key starting at position j *)
RECURSIVE MatchFrom(_, _, _, _)
MatchFrom(regex, i, key, j) ==
  IF i > Len(regex) THEN TRUE
  ELSE IF regex[i] = "^" THEN j = 1 /\ MatchFrom(regex, i + 1, key, j)
  ELSE IF i < Len(regex) /\ regex[i + 1] = "*"
       THEN \/ MatchFrom(regex, i + 2, key, j)
            \/ /\ j <= Len(key)
               /\ AtomMatches(regex[i], key[j])
               /\ MatchFrom(regex, i, key, j + 1)
  ELSE /\ j <= Len(key)
       /\ AtomMatches(regex[i], key[j])
       /\ MatchFrom(regex, i + 1, key, j + 1)

(* regex.search(key) *)
Search(regex, key) ==
  \E j \in 1..(Len(key) + 1) : MatchFrom(regex, 1, key, j)

----------------------------------------------------------------------------
(* library.py: the albums of the library, keyed by path, in the iteration  *)
(* order of Library.albums.                                                *)

LibraryKeys ==
  << <<"A", "b", "/", "c">>,
     <<"b", "a", "d">>,
     <<"x", "a", "/", "B">> >>

LibraryPaths == <<"Ab/c", "bad", "xa/B">>

NAlbums == Len(LibraryKeys)

(* Library.search_vanity, as a generator position: the index of the next   *)
(* library entry at or after position from whose key the pattern matches,  *)
(* NAlbums + 1 when the generator is exhausted.                            *)
RECURSIVE NextMatch(_, _)
NextMatch(regex, from) ==
  IF from > NAlbums THEN NAlbums + 1
  ELSE IF Search(regex, LibraryKeys[from]) THEN from
  ELSE NextMatch(regex, from + 1)

(* The genres of the albums, and DenonRC1223._genres for the digits of the  *)
(* model.                                                                  *)
LibraryGenres == << {"Classical"}, {"Acoustic", "R&B"}, {} >>

Genres(num) ==
  CASE num = "1" -> {"Classical"}
    [] num = "2" -> {"Acoustic", "Soft Rock", "R&B"}
    [] num = "0" -> {"Pop", "Pop Punk", "Funk"}
    [] OTHER -> {}

(* Library.albums_with_genres, as the set of the albums in the list *)
albums_with_genres(genres) ==
  {a \in 1..NAlbums : LibraryGenres[a] \cap genres # {}}

----------------------------------------------------------------------------
(* The remote: state.                                                      *)

VARIABLES
  pc,          \* where the program is: "top" (listen_stdin blocked in its
               \* read), "menu", "help", "search" (blocked in the read of that
               \* loop), "say" (blocked in a blocking narration), "done",
               \* "crashed" (an exception left listen_stdin)
  cont,        \* what follows the blocking narration in progress
  mpd,         \* the player: state, queue (album id, 0 when empty)
  ctx,         \* the MuteContext of the action in progress
  pauses,      \* pause calls issued by the scope
  resumes,     \* play calls issued by the scope's __exit__
  player,      \* the asynchronous narration whose handle the program holds
  speaker,     \* the blocking narration process
  orphans,     \* TRUE while a killed narration whose handle was dropped
               \* has not terminated yet
  stray,       \* TRUE while a narration whose handle was lost to an
               \* exception is running
  menu,        \* which menu navigate_menu runs: "none", "power", "setup"
  index,       \* navigate_menu's index
  moves,       \* down presses minus up presses in this navigation
  query,       \* the digit query of the search session
  vanity_idx,  \* DenonRC1223._vanity_idx
  play,        \* the album chosen by the search session, 0 when none
  raised,      \* the failure of the logic enclosed by the scope, or "none"
  exc,         \* the failure that reached listen_stdin, or "none"
  said,        \* the text of the narration started last
  pending,     \* TRUE while input that arrived while the program was not
               \* in a read is queued on stdin
  discarded,   \* TRUE in a read that began after flush_stdin threw queued
               \* input away
  files,       \* the cache directory: the content of the file of each hash
  cache_dir,   \* whether the cache directory exists
  speech,      \* the Speech object of each resolver and where its prefetch is
  settled,     \* per hash, the audio the last undisturbed resolution with
               \* caching returned, "none" after a failure
  typed,       \* vanity: the digit string patterns are derived from
  derived,     \* vanity: per mode, the pattern to_regex returned for
               \* the digit string, <<>> before the call
  nav,         \* navigate_menu on its own: its arguments, its index, the
               \* scope's snapshot of the settings, what was narrated last
               \* and the entry whose action the last key invoked
  server,      \* the playback settings of the MPD server
  help,        \* help_menu on its own: whether the interpreter keeps
               \* docstrings, the narration it holds the handle of, and the
               \* narration it terminated last
  scope,       \* MuteContext.current on its own: the snapshot of a scope,
               \* where its update is, and what current() returned
  daemon,      \* the state, the song index and the queue of the MPD server
  render,      \* Speech.play on its own: the rendering process, what it has
               \* read and written, its exit status, and how play ended
  library,     \* Library.__init__ on its own: the data it was given, its
               \* counters and its albums, or that it raised
  pad,         \* the number pad, repeat and random on their own: the key read,
               \* the key remembered for repeat, the number-pad key pressed last
               \* and the number-pad action invoked last,
  backend      \* Client.play_album, play_random and play_recent on their
               \* own: the call in progress, the commands it has issued,
               \* and the state and the queue of the MPD server

remoteVars ==
  <<pc, cont, mpd, ctx, pauses, resumes, player, speaker, orphans, stray,
    menu, index, moves, query, vanity_idx, play, raised, exc, said,
    pending, discarded>>

cacheVars == <<files, cache_dir, speech, settled>>

\* the arguments and results of the functions that are checked on their own
vanityVars == <<typed, derived>>
navVars == <<nav, server>>
currentVars == <<scope, daemon>>
pureVars ==
  <<vanityVars, navVars, help, currentVars, render, library, pad, backend>>

\* what the actions of each of these functions leave alone
beyondVanity ==
  <<remoteVars, cacheVars, navVars, help, currentVars, render, library, pad,
    backend>>
beyondNav ==
  <<remoteVars, cacheVars, vanityVars, help, currentVars, render, library, pad,
    backend>>
beyondHelp ==
  <<remoteVars, cacheVars, vanityVars, navVars, currentVars, render, library, pad,
    backend>>
beyondCurrent ==
  <<remoteVars, cacheVars, vanityVars, navVars, help, render, library, pad,
    backend>>
beyondPlay ==
  <<remoteVars, cacheVars, vanityVars, navVars, help, currentVars, library, pad,
    backend>>
beyondLibrary ==
  <<remoteVars, cacheVars, vanityVars, navVars, help, currentVars, render, pad,
    backend>>
beyondPad ==
  <<remoteVars, cacheVars, vanityVars, navVars, help, currentVars, render, library,
    backend>>
beyondBackend ==
  <<remoteVars, cacheVars, vanityVars, navVars, help, currentVars, render, library,
    pad>>

vars == <<remoteVars, cacheVars, pureVars>>

procVars == <<player, speaker, orphans, stray>>
menuVars == <<menu, index, moves>>

(* speech.py: the texts resolved in the model, their md5 digests, the     *)
(* processes that resolve them, and the audio of a text: the synthesis    *)
(* backend is a function of the text, delivered in AudioLen pieces.       *)
Texts == {"Back.", "OK"}
Hash(text) == IF text = "Back." THEN "cf5b" ELSE "e0aa"
Hashes == {Hash(t) : t \in Texts}
Resolvers == {"p1", "p2"}
Synth(text) == [i \in 1..AudioLen |-> [of |-> text, piece |-> i]]
Hole == [of |-> "", piece |-> 0]

(* a value that may be missing: a file that may not exist, audio that may *)
(* not be loaded                                                           *)
None == {}
Some(x) == {x}
The(opt) == CHOOSE x \in opt : TRUE

NoSpeech ==
  [pc |-> "idle", text |-> "none", cache |-> FALSE, audio |-> None,
   existed |-> FALSE, hit |-> FALSE, synth |-> 0, opened |-> FALSE, off |-> 0, expect |-> None, alone |-> TRUE]

(* the settings of the setup menu: those in the status dictionary, and     *)
(* the replay gain mode, which has a command of its own                    *)
StatusKeys == {"consume", "random", "repeat", "single"}
SettingKeys == StatusKeys \cup {"replay-gain"}

NoNav ==
  [pc |-> "idle", menu |-> "none", end_with |-> "", index |-> 0,
   status |-> [key \in StatusKeys |-> "0"], said |-> <<>>, invoked |-> -1,
   changes |-> 0]   \* changes: those of other clients since the snapshot

NoHelp ==
  [pc |-> "idle", docs |-> TRUE, said |-> "none", player |-> "none",
   reaped |-> "none"]

NoScope ==
  [pc |-> "idle", status |-> [state |-> "stop", song |-> -1],
   playlist |-> <<>>, raised |-> FALSE, track |-> None]

NoRender ==
  [pc |-> "idle", fed |-> 0, lines |-> <<>>, code |-> 0, message |-> <<>>]

NoLibrary ==
  [pc |-> "idle", data |-> <<>>, errors |-> 0, warnings |-> 0, albums |-> {}]

NoPad ==
  [pc |-> "top", _input_char |-> "None", _repeat_char |-> "+",
   pressed |-> "none", invoked |-> "none", exc |-> "none"]

NoBackend ==
  [pc |-> "idle", method |-> "none", arg |-> [given |-> FALSE, genres |-> {}],
   from |-> {}, album |-> 0, i |-> 0, sent |-> <<>>, state |-> "stop",
   queue |-> <<>>, before |-> <<>>, exc |-> "none", calls |-> 0]

NoCtx ==
  [phase |-> "none", created |-> "stop", state |-> "stop", plen |-> 0,
   resume |-> FALSE, generator |-> 0, results |-> <<>>, index |-> -1,
   reached |-> -1]

Init ==
  /\ pc = "top"
  /\ cont = "none"
  /\ mpd = [state |-> "stop", queue |-> 0]
  /\ ctx = NoCtx
  /\ pauses = 0
  /\ resumes = 0
  /\ player = "none"
  /\ speaker = "none"
  /\ orphans = FALSE
  /\ stray = FALSE
  /\ menu = "none"
  /\ index = 0
  /\ moves = 0
  /\ query = <<>>
  /\ vanity_idx = 0
  /\ play = 0
  /\ raised = "none"
  /\ exc = "none"
  /\ said = "none"
  /\ pending = FALSE
  /\ discarded = FALSE
  /\ files = [h \in Hashes |-> None]
  /\ cache_dir = FALSE
  /\ speech = [r \in Resolvers |-> NoSpeech]
  /\ settled = [h \in Hashes |-> None]
  /\ typed = <<>>
  /\ derived = [mode \in {"strict", "linear", "fuzzy"} |-> <<>>]
  /\ server = [key \in SettingKeys |-> IF key = "replay-gain" THEN "off" ELSE "0"]
  /\ nav = NoNav
  /\ help = NoHelp
  /\ daemon = [state |-> "stop", song |-> -1, queue |-> <<>>]
  /\ scope = NoScope
  /\ render = NoRender
  /\ library = NoLibrary
  /\ pad = NoPad
  /\ backend = NoBackend

----------------------------------------------------------------------------
(* MuteContext.                                                            *)

(* MuteContext.__init__ and update: the snapshot of the player's status *)
update(c, m) ==
  [c EXCEPT !.state = m.state, !.plen = m.queue]

(* MuteContext.__enter__: whether the scope pauses the player *)
EnterPauses == mpd.state = "play"

(* mute_context() followed by __enter__ *)
EnterScope ==
  /\ ctx' = [update(NoCtx, mpd) EXCEPT !.phase = "open", !.created = mpd.state,
                                  !.resume = EnterPauses]
  /\ pauses' = IF EnterPauses THEN 1 ELSE 0
  /\ resumes' = 0
  /\ mpd' = IF EnterPauses THEN [mpd EXCEPT !.state = "pause"] ELSE mpd
  /\ raised' = "none"

(* a variant of __exit__ that reads the snapshot instead of self.resume *)
ExitResumesFromSnapshot(c) == c.state = "play"

(* a variant of __exit__ that never resumes *)
ExitResumesNever(c) == FALSE

(* MuteContext.__exit__: whether the scope calls api.play() *)
ExitResumes(c) == c.resume

(* Client.play_album: clear, add the files, play *)
play_album(m, album) == [m EXCEPT !.state = "play", !.queue = album]

(* a variant in which the album is played inside the scope, before the   *)
(* resume                                                                  *)
LeavePlaysFirst(failure, album) ==
  \E ok, played \in BOOLEAN :
    LET calls == ExitResumes(ctx)
        e == IF calls /\ ~ok THEN "resume" ELSE failure
        m1 == IF calls /\ ok THEN [mpd EXCEPT !.state = "play"] ELSE mpd
        plays == album # 0
    IN /\ (~calls => ok)
       /\ (~plays => played)
       /\ resumes' = IF calls THEN resumes + 1 ELSE resumes
       /\ ctx' = [ctx EXCEPT !.phase = "closed", !.generator = 0,
                             !.results = <<>>, !.index = -1, !.reached = -1]
       /\ raised' = failure
       /\ exc' = IF plays /\ ~played THEN "backend" ELSE e
       /\ mpd' = IF album # 0 /\ played THEN play_album(m1, album) ELSE m1
       /\ pc' = IF e = "none" /\ played THEN "flush" ELSE "crashed"
       /\ cont' = "none"
       /\ menu' = "none"
       /\ index' = 0
       /\ moves' = 0
       /\ query' = <<>>
       /\ play' = 0
       /\ UNCHANGED pauses

(* The end of a scope action: __exit__ runs whether the enclosed logic    *)
(* failed (failure # "none") or not; an exception of api.play() replaces  *)
(* the one in flight.  Nothing in listen_stdin catches: an exception ends *)
(* the program.  album # 0: DenonRC1223.down plays the chosen album after *)
(* the scope, when nothing was raised; that command may fail as well.     *)
Leave(failure, album) ==
  \E ok, played \in BOOLEAN :
    LET calls == ExitResumes(ctx)
        e == IF calls /\ ~ok THEN "resume" ELSE failure
        m1 == IF calls /\ ok THEN [mpd EXCEPT !.state = "play"] ELSE mpd
        plays == e = "none" /\ album # 0
    IN /\ (~calls => ok)
       /\ (~plays => played)
       /\ resumes' = IF calls THEN resumes + 1 ELSE resumes
       /\ ctx' = [ctx EXCEPT !.phase = "closed", !.generator = 0,
                             !.results = <<>>, !.index = -1, !.reached = -1]
       /\ raised' = failure
       /\ exc' = IF plays /\ ~played THEN "backend" ELSE e
       /\ mpd' = IF plays /\ played THEN play_album(m1, album) ELSE m1
       /\ pc' = IF e = "none" /\ played THEN "flush" ELSE "crashed"
       /\ cont' = "none"
       /\ menu' = "none"
       /\ index' = 0
       /\ moves' = 0
       /\ query' = <<>>
       /\ play' = 0
       /\ UNCHANGED pauses

(* The narration processes when the handles of the action go away: a      *)
(* killed process that was not waited for may still be alive, and so may  *)
(* a running one.                                                          *)
DropHandles ==
  /\ speaker' = "none"
  /\ player' = "none"
  /\ orphans' = (orphans \/ player = "killed")
  /\ stray' = (stray \/ player = "running")

(* Remote.flush_stdin: the pause, then tcflush discards what is queued;   *)
(* the value is whether input is queued afterwards                          *)
flush_stdin_without_tcflush(queued) == queued

flush_stdin(queued) == FALSE

(* ctx.say(text): Speech.play spawns the rendering process and blocks *)
Say(text, then) ==
  /\ speaker' = "running"
  /\ said' = text
  /\ pc' = "say"
  /\ cont' = then

----------------------------------------------------------------------------
(* Remote.listen_stdin: one action per bound action, taken when the read   *)
(* at the top of the loop returns its key.                                 *)

sessionVars == <<menu, index, moves, query, play>>

(* a variant in which every back key ends the loop *)
ListenExitOnBack(char) ==
  /\ pc = "top"
  /\ char \in BACK_KEYS /\ pc' = "done"
  /\ UNCHANGED <<cont, mpd, ctx, pauses, resumes, procVars, sessionVars,
                 vanity_idx, raised, exc, said>>
  /\ UNCHANGED pending /\ discarded' = FALSE
  /\ UNCHANGED <<cacheVars, pureVars>>

(* an exit key ends the loop *)
ListenExit(char) ==
  /\ pc = "top"
  /\ char \in EXIT_KEYS /\ pc' = "done"
  /\ UNCHANGED <<cont, mpd, ctx, pauses, resumes, procVars, sessionVars,
                 vanity_idx, raised, exc, said>>
  /\ UNCHANGED pending /\ discarded' = FALSE
  /\ UNCHANGED <<cacheVars, pureVars>>

(* _unbound, and the actions left and right, which only log *)
ListenNoop(char) ==
  /\ pc = "top"
  /\ char \in {"x", "left", "right"}
  /\ pc' = "flush"
  /\ UNCHANGED <<cont, mpd, ctx, pauses, resumes, procVars, sessionVars,
                 vanity_idx, raised, exc, said>>
  /\ UNCHANGED pending /\ discarded' = FALSE
  /\ UNCHANGED <<cacheVars, pureVars>>

(* A player command issued outside a scope either takes effect or fails,  *)
(* and the failure leaves listen_stdin.                                    *)
Command(m) ==
  /\ \/ mpd' = m /\ pc' = "flush" /\ exc' = "none"
     \/ mpd' = mpd /\ pc' = "crashed" /\ exc' = "backend"
  /\ UNCHANGED <<cont, ctx, pauses, resumes, procVars, sessionVars,
                 vanity_idx, raised, said>>

(* Client.toggle_playback *)
toggle_playback(char) ==
  /\ pc = "top"
  /\ char = " "
  /\ Command(IF mpd.state = "play" THEN [mpd EXCEPT !.state = "pause"]
             ELSE IF mpd.queue # 0 THEN [mpd EXCEPT !.state = "play"]
             ELSE mpd)
  /\ UNCHANGED pending /\ discarded' = FALSE
  /\ UNCHANGED <<cacheVars, pureVars>>

(* DenonRC1223.stop *)
stop(char) ==
  /\ pc = "top"
  /\ char = "/"
  /\ Command([mpd EXCEPT !.state = "stop"])
  /\ UNCHANGED pending /\ discarded' = FALSE
  /\ UNCHANGED <<cacheVars, pureVars>>

(* DenonRC1223.clear *)
clear(char) ==
  /\ pc = "top"
  /\ char = "l"
  /\ Command([mpd EXCEPT !.state = "stop", !.queue = 0])
  /\ UNCHANGED pending /\ discarded' = FALSE
  /\ UNCHANGED <<cacheVars, pureVars>>

(* DenonRC1223.number: Client.play_random with the genres of the digit;   *)
(* random.choice of an empty list raises.                                  *)
number(char) ==
  /\ pc = "top"
  /\ char \in DigitKeys
  /\ LET num == char IN
       IF albums_with_genres(Genres(num)) = {}
       THEN /\ pc' = "crashed"
            /\ exc' = "index"
            /\ UNCHANGED <<cont, mpd, ctx, pauses, resumes, procVars,
                           sessionVars, vanity_idx, raised, said>>
       ELSE \E album \in albums_with_genres(Genres(num)) :
              Command(play_album(mpd, album))
  /\ UNCHANGED pending /\ discarded' = FALSE
  /\ UNCHANGED <<cacheVars, pureVars>>

(* mute_context() or __enter__ fails: api.status() or api.pause() raised  *)
(* before the scope was entered, so __exit__ does not run.                 *)
ScopeKeys == {"~", "t", "cr", "b", "up", "m", "down", "i"}

EnterFails(char) ==
  /\ pc = "top"
  /\ char \in ScopeKeys
  /\ char = "b" => mpd.state # "play"
  /\ pc' = "crashed"
  /\ exc' = "backend"
  /\ UNCHANGED <<cont, mpd, ctx, pauses, resumes, procVars, sessionVars,
                 vanity_idx, raised, said>>
  /\ UNCHANGED pending /\ discarded' = FALSE
  /\ UNCHANGED <<cacheVars, pureVars>>

(* DenonRC1223.power and DenonRC1223.setup up to the title of the menu *)
OpenMenu(char) ==
  /\ pc = "top"
  /\ char \in {"~", "t"} /\
       /\ menu' = IF char = "~" THEN "power" ELSE "setup"
       /\ Say(IF char = "~" THEN "Power menu." ELSE "Setup menu.", "position")
  /\ EnterScope
  /\ index' = 0
  /\ moves' = 0
  /\ UNCHANGED <<player, orphans, stray, query, vanity_idx, play, exc>>
  /\ UNCHANGED pending /\ discarded' = FALSE
  /\ UNCHANGED <<cacheVars, pureVars>>

(* DenonRC1223.enter: help_menu up to its first read *)
enter(char) ==
  /\ pc = "top"
  /\ char \in {"cr"} /\ pc' = "help"
  /\ EnterScope
  /\ player' = "running"
  /\ said' = "Press a button for help."
  /\ UNCHANGED <<cont, speaker, orphans, stray, sessionVars, vanity_idx, exc>>
  /\ pending' = flush_stdin(pending) /\ discarded' = (pending /\ ~pending')
  /\ UNCHANGED <<cacheVars, pureVars>>

(* DenonRC1223.back: nothing while playing, else "Ready." *)
back(char) ==
  /\ pc = "top"
  /\ char = "b"
  /\ IF mpd.state = "play"
     THEN /\ pc' = "flush"
          /\ UNCHANGED <<cont, mpd, ctx, pauses, resumes, speaker, raised, said>>
     ELSE /\ EnterScope
          /\ Say("Ready.", "leave")
  /\ UNCHANGED <<player, orphans, stray, sessionVars, vanity_idx, exc>>
  /\ UNCHANGED pending /\ discarded' = FALSE
  /\ UNCHANGED <<cacheVars, pureVars>>

(* DenonRC1223.up and mode *)
NotImplemented(char) ==
  /\ pc = "top"
  /\ char \in {"up", "m"} /\ Say("Not implemented yet.", "leave")
  /\ EnterScope
  /\ UNCHANGED <<player, orphans, stray, sessionVars, vanity_idx, exc>>
  /\ UNCHANGED pending /\ discarded' = FALSE
  /\ UNCHANGED <<cacheVars, pureVars>>

(* DenonRC1223.down up to the first read of the search loop *)
down(char) ==
  /\ pc = "top"
  /\ char \in {"down"} /\ pc' = "search"
  /\ EnterScope
  /\ player' = "running"
  /\ said' = "Search albums."
  /\ query' = <<>>
  /\ play' = 0
  /\ UNCHANGED <<cont, speaker, orphans, stray, menuVars, vanity_idx, exc>>
  /\ pending' = flush_stdin(pending) /\ discarded' = (pending /\ ~pending')
  /\ UNCHANGED <<cacheVars, pureVars>>

(* DenonRC1223.info (source and queue alike): an early return on an empty queue, *)
(* else an asynchronous announcement, and the text to speak is fetched.    *)
info(char) ==
  /\ pc = "top"
  /\ char \in {"i"} /\
       /\ EnterScope
       /\ IF mpd.queue = 0
          THEN /\ Say("Current playlist is empty.", "leave")
               /\ UNCHANGED player
          ELSE /\ player' = "running"
               /\ said' = "Currently playing:"
               /\ pc' = "fetch"
               /\ UNCHANGED <<cont, speaker>>
  /\ UNCHANGED <<orphans, stray, sessionVars, vanity_idx, exc>>
  /\ UNCHANGED pending /\ discarded' = FALSE
  /\ UNCHANGED <<cacheVars, pureVars>>

(* ... the announcement is waited for and the text is spoken *)
InfoSpeak ==
  /\ pc = "fetch"
  /\ Say("the current track", "leave")
  /\ player' = "exited"
  /\ UNCHANGED <<mpd, ctx, pauses, resumes, orphans, stray, sessionVars,
                 vanity_idx, raised, exc>>
  /\ UNCHANGED <<pending, discarded>>
  /\ UNCHANGED <<cacheVars, pureVars>>

(* ... or fetching the text fails, with the announcement still running *)
InfoFails ==
  /\ pc = "fetch"
  /\ Leave("synthesis", 0)
  /\ DropHandles
  /\ UNCHANGED <<said, vanity_idx>>
  /\ UNCHANGED <<pending, discarded>>
  /\ UNCHANGED <<cacheVars, pureVars>>

(* Remote.flush_stdin at the end of the iteration of listen_stdin: the    *)
(* debounce pause; the scope of the action is gone                         *)
Flush ==
  /\ pc = "flush"
  /\ pc' = "top"
  /\ ctx' = NoCtx
  /\ pauses' = 0
  /\ resumes' = 0
  /\ raised' = "none"
  /\ said' = "none"
  /\ UNCHANGED <<cont, mpd, procVars, sessionVars, vanity_idx, exc>>
  /\ pending' = flush_stdin(pending) /\ discarded' = (pending /\ ~pending')
  /\ UNCHANGED <<cacheVars, pureVars>>

----------------------------------------------------------------------------
(* Blocking narration ends.                                                *)

(* the rendering process exits non-zero: Speech.play raises *)
SayFails ==
  /\ pc = "say"
  /\ Leave("playback", 0)
  /\ DropHandles
  /\ UNCHANGED <<said, vanity_idx>>
  /\ UNCHANGED <<pending, discarded>>
  /\ UNCHANGED <<cacheVars, pureVars>>

(* the narration was the last thing the action does in its scope *)
SayLeave ==
  /\ pc = "say"
  /\ cont = "leave"
  /\ Leave("none", 0)
  /\ DropHandles
  /\ UNCHANGED <<said, vanity_idx>>
  /\ UNCHANGED <<pending, discarded>>
  /\ UNCHANGED <<cacheVars, pureVars>>

(* DenonRC1223.down after "OK": the scope ends and the album is played *)
SayOk ==
  /\ pc = "say"
  /\ cont = "ok"
  /\ Leave("none", play)
  /\ DropHandles
  /\ UNCHANGED <<said, vanity_idx>>
  /\ UNCHANGED <<pending, discarded>>
  /\ UNCHANGED <<cacheVars, pureVars>>

(* the 'i' key of the search loop: back to the read of the loop *)
SayQuery ==
  /\ pc = "say"
  /\ cont = "search"
  /\ speaker' = "none"
  /\ pc' = "search"
  /\ cont' = "none"
  /\ UNCHANGED <<mpd, ctx, pauses, resumes, player, orphans, stray,
                 sessionVars, vanity_idx, raised, exc, said>>
  /\ pending' = flush_stdin(pending) /\ discarded' = (pending /\ ~pending')
  /\ UNCHANGED <<cacheVars, pureVars>>

----------------------------------------------------------------------------
(* Remote.navigate_menu.                                                   *)

MenuLen == IF menu = "power" THEN 3 ELSE 5

SetupKeys == <<"consume", "random", "repeat", "single", "replay-gain">>

(* the label of the entry at the index; of a playback setting, the part   *)
(* before its value                                                        *)
EntryLabel ==
  IF menu = "power"
  THEN <<"Update library?", "Restart system?", "Shutdown system?">>[index + 1]
  ELSE SetupKeys[index + 1]

(* top of the loop: ctx.say(str(index + 1)), after the title or after the *)
(* guidance message                                                        *)
MenuPosition ==
  /\ pc = "say"
  /\ cont = "position"
  /\ Say(ToString(index + 1), "entry")
  /\ UNCHANGED <<mpd, ctx, pauses, resumes, player, orphans, stray,
                 sessionVars, vanity_idx, raised, exc>>
  /\ UNCHANGED <<pending, discarded>>
  /\ UNCHANGED <<cacheVars, pureVars>>

(* the label is spoken asynchronously and the loop blocks in its read; a  *)
(* handle held from the previous round is overwritten                      *)
MenuEntry ==
  /\ pc = "say"
  /\ cont = "entry"
  /\ speaker' = "none"
  /\ player' = "running"
  /\ orphans' = (orphans \/ player = "killed")
  /\ said' = EntryLabel
  /\ pc' = "menu"
  /\ cont' = "none"
  /\ UNCHANGED <<mpd, ctx, pauses, resumes, stray, sessionVars, vanity_idx,
                 raised, exc>>
  /\ pending' = flush_stdin(pending) /\ discarded' = (pending /\ ~pending')
  /\ UNCHANGED <<cacheVars, pureVars>>

(* player.kill(): the signal is sent, nothing waits for the process *)
Kill(p) == IF p = "running" THEN "killed" ELSE p

(* a variant of the 'up' branch that stops at the first entry *)
IndexUpClamped(i, n) == IF i = 0 THEN 0 ELSE i - 1

(* index = (index + 1) % len(menu) and index = (index - 1) % len(menu) *)
IndexDown(i, n) == (i + 1) % n
IndexUp(i, n) == (i - 1) % n

(* a back key, or left *)
(* a variant of the back branch without its break *)
MenuBackStays(char) ==
  /\ pc = "menu"
  /\ char \in PREV_KEYS /\ Say("Back.", "position")
  /\ player' = Kill(player)
  /\ UNCHANGED <<mpd, ctx, pauses, resumes, orphans, stray, sessionVars,
                 vanity_idx, raised, exc>>
  /\ UNCHANGED pending /\ discarded' = FALSE
  /\ UNCHANGED <<cacheVars, pureVars>>

MenuBack(char) ==
  /\ pc = "menu"
  /\ char \in PREV_KEYS /\ Say("Back.", "leave")
  /\ player' = Kill(player)
  /\ UNCHANGED <<mpd, ctx, pauses, resumes, orphans, stray, sessionVars,
                 vanity_idx, raised, exc>>
  /\ UNCHANGED pending /\ discarded' = FALSE
  /\ UNCHANGED <<cacheVars, pureVars>>

(* down and up: the index moves and the loop starts over *)
MenuMove(char) ==
  /\ pc = "menu"
  /\ char \in {"down", "up"} /\
       /\ index' = IF char = "down" THEN IndexDown(index, MenuLen)
                   ELSE IndexUp(index, MenuLen)
       /\ moves' = IF char = "down" THEN moves + 1 ELSE moves - 1
       /\ moves' \in -MaxPresses..MaxPresses
  /\ player' = Kill(player)
  /\ Say(ToString(index' + 1), "entry")
  /\ UNCHANGED <<mpd, ctx, pauses, resumes, orphans, stray, menu, query,
                 vanity_idx, play, raised, exc>>
  /\ UNCHANGED pending /\ discarded' = FALSE
  /\ UNCHANGED <<cacheVars, pureVars>>

(* an enter key in the power menu: the entry's action speaks first *)
MenuEnterPower(char) ==
  /\ pc = "menu"
  /\ menu = "power"
  /\ char \in ENTER_KEYS /\
       CASE index = 0 -> Say("Updating library.", "update")
         [] index = 1 -> Say("Restarting system.", "leave")
         [] OTHER -> Say("Shutting down system.", "leave")
  /\ player' = Kill(player)
  /\ UNCHANGED <<mpd, ctx, pauses, resumes, orphans, stray, sessionVars,
                 vanity_idx, raised, exc>>
  /\ UNCHANGED pending /\ discarded' = FALSE
  /\ UNCHANGED <<cacheVars, pureVars>>

(* power_update after "Updating library.": Client.update, then "Done." *)
PowerUpdate ==
  /\ pc = "say"
  /\ cont = "update"
  /\ Say("Done.", "leave")
  /\ UNCHANGED <<mpd, ctx, pauses, resumes, player, orphans, stray,
                 sessionVars, vanity_idx, raised, exc>>
  /\ UNCHANGED <<pending, discarded>>
  /\ UNCHANGED <<cacheVars, pureVars>>

(* ... or Client.update fails *)
PowerUpdateFails ==
  /\ pc = "say"
  /\ cont = "update"
  /\ Leave("backend", 0)
  /\ DropHandles
  /\ UNCHANGED <<said, vanity_idx>>
  /\ UNCHANGED <<pending, discarded>>
  /\ UNCHANGED <<cacheVars, pureVars>>

(* an enter key in the setup menu: the entry toggles its setting and      *)
(* returns True, the snapshot is refreshed and the loop starts over at    *)
(* the same index                                                          *)
MenuEnterSetup(char) ==
  /\ pc = "menu"
  /\ menu = "setup"
  /\ char \in ENTER_KEYS /\
       /\ mpd' = mpd   \* the setting toggled is not part of the model
       /\ ctx' = update(ctx, mpd')
  /\ player' = Kill(player)
  /\ Say(ToString(index + 1), "entry")
  /\ UNCHANGED <<pauses, resumes, orphans, stray, sessionVars, vanity_idx,
                 raised, exc>>
  /\ UNCHANGED pending /\ discarded' = FALSE
  /\ UNCHANGED <<cacheVars, pureVars>>

(* ... or the backend rejects the command *)
MenuEnterSetupFails(char) ==
  /\ pc = "menu"
  /\ menu = "setup"
  /\ char \in ENTER_KEYS /\ Leave("backend", 0)
  /\ speaker' = "none"
  /\ player' = "none"
  /\ orphans' = (orphans \/ Kill(player) = "killed")
  /\ UNCHANGED <<stray, said, vanity_idx>>
  /\ UNCHANGED pending /\ discarded' = FALSE
  /\ UNCHANGED <<cacheVars, pureVars>>

(* any other key: the guidance message *)
MenuOther(char) ==
  /\ pc = "menu"
  /\ char \notin PREV_KEYS \cup ENTER_KEYS \cup {"down", "up"}
  /\ Say("Use directional buttons.", "position")
  /\ player' = Kill(player)
  /\ UNCHANGED <<mpd, ctx, pauses, resumes, orphans, stray, sessionVars,
                 vanity_idx, raised, exc>>
  /\ UNCHANGED pending /\ discarded' = FALSE
  /\ UNCHANGED <<cacheVars, pureVars>>

----------------------------------------------------------------------------
(* Remote.help_menu.                                                       *)

(* the keys bound in DenonRC1223._actions, of the keys of the model *)
BoundKeys == Keys \ {"x", "ctrl_c"}

(* action.__doc__ *)
Doc(char) ==
  CASE char = "~" -> "Update, restart or shutdown system."
    [] char = " " -> "Toggle playback."
    [] char = "/" -> "Stop playback."
    [] char = "cr" -> "Help. In menus: selecting entries."
    [] char = "b" -> "Nothing. In menus: go back."
    [] char = "up" -> "Search playlists by name. In menus: previous entry."
    [] char = "left" -> "Nothing. In menus: go back."
    [] char = "down" -> "Search albums by path. In menus: next entry."
    [] char = "right" -> "Nothing. In menus: select or toggle."
    [] char = "i" -> "Speak title and artist of current track."
    [] char = "m" -> "Reserved."
    [] char = "t" -> "Modify playback settings."
    [] char = "l" -> "Clear playlist."
    [] OTHER -> "Play album."

(* player.terminate(); player.wait() *)
TerminateWait(p) == "exited"

(* a back key: "Back." and the loop ends *)
HelpBack(char) ==
  /\ pc = "help"
  /\ char \in BACK_KEYS /\ Say("Back.", "leave")
  /\ player' = TerminateWait(player)
  /\ UNCHANGED <<mpd, ctx, pauses, resumes, orphans, stray, sessionVars,
                 vanity_idx, raised, exc>>
  /\ UNCHANGED pending /\ discarded' = FALSE
  /\ UNCHANGED <<cacheVars, pureVars>>

(* any other key: its description, or that it is unmapped *)
(* a variant of help mode that also runs the action of the key *)
HelpKeyInvokes(char) ==
  /\ pc = "help"
  /\ char \notin BACK_KEYS
  /\ said' = IF char \in BoundKeys
               THEN (IF Doc(char) # "" THEN Doc(char)
                     ELSE "Sorry, this button is undocumented.")
               ELSE "Sorry, this input event is unmapped."
  /\ player' = "running"
  /\ mpd' = IF char = "/" THEN [mpd EXCEPT !.state = "stop"]
            ELSE IF char = "l" THEN [mpd EXCEPT !.state = "stop", !.queue = 0]
            ELSE mpd
  /\ UNCHANGED <<pc, cont, ctx, pauses, resumes, speaker, orphans, stray,
                 sessionVars, vanity_idx, raised, exc>>
  /\ pending' = flush_stdin(pending) /\ discarded' = (pending /\ ~pending')
  /\ UNCHANGED <<cacheVars, pureVars>>

HelpKey(char) ==
  /\ pc = "help"
  /\ char \notin BACK_KEYS
  /\ said' = IF char \in BoundKeys
               THEN (IF Doc(char) # "" THEN Doc(char)
                     ELSE "Sorry, this button is undocumented.")
               ELSE "Sorry, this input event is unmapped."
  /\ player' = "running"
  /\ UNCHANGED <<pc, cont, mpd, ctx, pauses, resumes, speaker, orphans, stray,
                 sessionVars, vanity_idx, raised, exc>>
  /\ pending' = flush_stdin(pending) /\ discarded' = (pending /\ ~pending')
  /\ UNCHANGED <<cacheVars, pureVars>>

----------------------------------------------------------------------------
(* DenonRC1223.down: the search loop.                                      *)

_search_mode(idx) == MODES[idx + 1]

(* a variant of toggle_vanity that goes through the modes backwards *)
toggle_vanity_back(idx) == (idx + Len(MODES) - 1) % Len(MODES)

(* toggle_vanity *)
toggle_vanity(idx) == (idx + 1) % Len(MODES)

(* the cursor moves to position i of scope c; reached, which the program  *)
(* does not keep, is the highest position of the cursor since new_search   *)
MoveTo(c, i) ==
  [c EXCEPT !.index = i, !.reached = IF i > c.reached THEN i ELSE c.reached]

(* a variant of extend_results whose generator yields every entry of the  *)
(* library                                                                 *)
extend_results_unfiltered(c, regex) ==
  IF c.generator = 0 \/ c.generator > NAlbums THEN c
  ELSE MoveTo([c EXCEPT !.generator = c.generator + 1,
                        !.results = Append(c.results, c.generator)],
              c.index + 1)

(* extend_results: the next match of the generator, if there is one, is   *)
(* appended and the cursor moves onto it                                   *)
extend_results(c, regex) ==
  IF c.generator = 0 THEN c
  ELSE LET item == NextMatch(regex, c.generator) IN
       IF item > NAlbums THEN [c EXCEPT !.generator = NAlbums + 1]
       ELSE MoveTo([c EXCEPT !.generator = item + 1,
                             !.results = Append(c.results, item)],
                   c.index + 1)

(* a variant of new_search that keeps the list of the search before *)
new_search_keeps(c, regex) ==
  extend_results([c EXCEPT !.generator = 1, !.index = Len(c.results) - 1],
                 regex)

(* new_search up to say_current *)
new_search(c, regex) ==
  extend_results([c EXCEPT !.results = <<>>, !.generator = 1, !.index = -1,
                           !.reached = -1],
                 regex)

(* a variant of the 'down' key that pulls from the generator every time *)
CursorDownEager(c, regex) == extend_results(c, regex)

(* the 'down' key *)
CursorDown(c, regex) ==
  IF c.index + 1 >= Len(c.results) THEN extend_results(c, regex)
  ELSE MoveTo(c, c.index + 1)

(* a variant of the 'up' key that wraps from the first match to the last *)
CursorUpWraps(c) ==
  [c EXCEPT !.index = IF c.index > 0 THEN c.index - 1
                      ELSE Len(c.results) - 1]

(* a variant of the 'up' key without its guard *)
CursorUpUnguarded(c) == [c EXCEPT !.index = c.index - 1]

(* the 'up' key *)
CursorUp(c) ==
  IF c.index > 0 THEN [c EXCEPT !.index = c.index - 1] ELSE c

(* say_current: what is spoken last *)
say_current(c) ==
  IF c.index >= 0 THEN LibraryPaths[c.results[c.index + 1]] ELSE "0"

Regex == to_regex(query, _search_mode(vanity_idx))

(* a back key: "Back." and the loop ends with nothing chosen *)
SearchBack(char) ==
  /\ pc = "search"
  /\ char \in BACK_KEYS /\ Say("Back.", "leave")
  /\ player' = TerminateWait(player)
  /\ UNCHANGED <<mpd, ctx, pauses, resumes, orphans, stray, sessionVars,
                 vanity_idx, raised, exc>>
  /\ UNCHANGED pending /\ discarded' = FALSE
  /\ UNCHANGED <<cacheVars, pureVars>>

(* a digit, backspace ('l' or left) or the mode key: the query and the    *)
(* mode after the key                                                      *)
QueryAfter(char) ==
  IF char \in {"l", "left"}
  THEN SubSeq(query, 1, IF query = <<>> THEN 0 ELSE Len(query) - 1)
  ELSE IF char = "m" THEN query ELSE Append(query, char)

ModeAfter(char) == IF char = "m" THEN toggle_vanity(vanity_idx) ELSE vanity_idx

(* ... and a new search is run with them *)
SearchEdit(char) ==
  /\ pc = "search"
  /\ char \in DigitKeys \cup {"l", "m", "left"} /\
       /\ char \in DigitKeys => Len(query) < MaxQuery
       /\ query' = QueryAfter(char)
       /\ vanity_idx' = ModeAfter(char)
       /\ LET regex == to_regex(query', _search_mode(vanity_idx')) IN
          /\ Compiles(regex)
          /\ ctx' = new_search(ctx, regex)
  /\ said' = say_current(ctx')
  /\ player' = "running"
  /\ UNCHANGED <<pc, cont, mpd, pauses, resumes, speaker, orphans, stray,
                 menuVars, play, raised, exc>>
  /\ pending' = flush_stdin(pending) /\ discarded' = (pending /\ ~pending')
  /\ UNCHANGED <<cacheVars, pureVars>>

(* ... or the pattern does not compile: the first next() of the generator *)
(* raises re.error, with the narration of the mode key still running      *)
SearchEditFails(char) ==
  /\ pc = "search"
  /\ char \in DigitKeys \cup {"l", "m", "left"} /\
       /\ char \in DigitKeys => Len(query) < MaxQuery
       /\ ~Compiles(to_regex(QueryAfter(char), _search_mode(ModeAfter(char))))
       /\ vanity_idx' = ModeAfter(char)
       /\ stray' = (stray \/ char = "m")
       /\ Leave("regex", 0)
  /\ speaker' = "none"
  /\ player' = "none"
  /\ UNCHANGED <<orphans, said>>
  /\ UNCHANGED pending /\ discarded' = FALSE
  /\ UNCHANGED <<cacheVars, pureVars>>

(* the 'i' key: the query is spoken, or how to search *)
SearchInfo(char) ==
  /\ pc = "search"
  /\ char \in {"i"} /\
       IF query # <<>>
       THEN /\ Say("the query", "search")
            /\ player' = "exited"
            /\ UNCHANGED pending /\ discarded' = FALSE
       ELSE /\ player' = "running"
            /\ said' = "Use vanity numbers to search."
            /\ pending' = flush_stdin(pending) /\ discarded' = (pending /\ ~pending')
            /\ UNCHANGED <<pc, cont, speaker>>
  /\ UNCHANGED <<mpd, ctx, pauses, resumes, orphans, stray, sessionVars,
                 vanity_idx, raised, exc>>
  /\ UNCHANGED <<cacheVars, pureVars>>

(* the 'down' and 'up' keys move the cursor *)
SearchMove(char) ==
  /\ pc = "search"
  /\ char \in {"down", "up"} /\
       ctx' = IF char = "down" THEN CursorDown(ctx, Regex) ELSE CursorUp(ctx)
  /\ said' = say_current(ctx')
  /\ player' = "running"
  /\ UNCHANGED <<pc, cont, mpd, pauses, resumes, speaker, orphans, stray,
                 sessionVars, vanity_idx, raised, exc>>
  /\ pending' = flush_stdin(pending) /\ discarded' = (pending /\ ~pending')
  /\ UNCHANGED <<cacheVars, pureVars>>

(* an enter key: ctx.results[ctx.index] is chosen and "OK" is spoken ... *)
SearchEnter(char) ==
  /\ pc = "search"
  /\ ctx.results # <<>>
  /\ char \in ENTER_KEYS /\
       play' = ctx.results[(ctx.index % Len(ctx.results)) + 1]
  /\ Say("OK", "ok")
  /\ player' = TerminateWait(player)
  /\ UNCHANGED <<mpd, ctx, pauses, resumes, orphans, stray, menuVars, query,
                 vanity_idx, raised, exc>>
  /\ UNCHANGED pending /\ discarded' = FALSE
  /\ UNCHANGED <<cacheVars, pureVars>>

(* a variant in which an enter key on an empty list ends the session     *)
(* without an error                                                        *)
SearchEnterQuiet(char) ==
  /\ pc = "search"
  /\ ctx.results = <<>>
  /\ char \in ENTER_KEYS /\ Leave("none", 0)
  /\ speaker' = "none"
  /\ player' = "none"
  /\ UNCHANGED <<orphans, stray, said, vanity_idx>>
  /\ UNCHANGED pending /\ discarded' = FALSE
  /\ UNCHANGED <<cacheVars, pureVars>>

(* ... or the list is empty and the subscript raises IndexError *)
SearchEnterFails(char) ==
  /\ pc = "search"
  /\ ctx.results = <<>>
  /\ char \in ENTER_KEYS /\ Leave("index", 0)
  /\ speaker' = "none"
  /\ player' = "none"
  /\ UNCHANGED <<orphans, stray, said, vanity_idx>>
  /\ UNCHANGED pending /\ discarded' = FALSE
  /\ UNCHANGED <<cacheVars, pureVars>>

(* any other key: the guidance message *)
SearchOther(char) ==
  /\ pc = "search"
  /\ char \notin BACK_KEYS \cup ENTER_KEYS \cup DigitKeys
                  \cup {"l", "m", "left", "i", "down", "up"}
  /\ said' = "Use numbers and directional buttons."
  /\ player' = "running"
  /\ UNCHANGED <<pc, cont, mpd, ctx, pauses, resumes, speaker, orphans, stray,
                 sessionVars, vanity_idx, raised, exc>>
  /\ pending' = flush_stdin(pending) /\ discarded' = (pending /\ ~pending')
  /\ UNCHANGED <<cacheVars, pureVars>>

----------------------------------------------------------------------------
(* The narration processes.                                                *)

(* the asynchronous narration plays to its end *)
NarrationEnds ==
  /\ player = "running"
  /\ player' = "exited"
  /\ UNCHANGED <<pc, cont, mpd, ctx, pauses, resumes, speaker, orphans, stray,
                 sessionVars, vanity_idx, raised, exc, said>>
  /\ UNCHANGED <<pending, discarded>>
  /\ UNCHANGED <<cacheVars, pureVars>>

(* a killed process terminates *)
KilledDies ==
  /\ \/ player = "killed" /\ player' = "exited" /\ UNCHANGED orphans
     \/ orphans /\ orphans' = FALSE /\ UNCHANGED player
  /\ UNCHANGED <<pc, cont, mpd, ctx, pauses, resumes, speaker, stray,
                 sessionVars, vanity_idx, raised, exc, said>>
  /\ UNCHANGED <<pending, discarded>>
  /\ UNCHANGED <<cacheVars, pureVars>>

(* a key is pressed, or a contact bounces, while the program is not in a  *)
(* read: the input is queued                                               *)
TypeAhead ==
  /\ pc \in {"say", "fetch", "flush"}
  /\ ~pending
  /\ pending' = TRUE
  /\ UNCHANGED discarded
  /\ UNCHANGED <<pc, cont, mpd, ctx, pauses, resumes, procVars, sessionVars,
                 vanity_idx, raised, exc, said>>
  /\ UNCHANGED <<cacheVars, pureVars>>

(* a narration left running by a failed action plays to its end *)
StrayEnds ==
  /\ stray
  /\ stray' = FALSE
  /\ UNCHANGED <<pc, cont, mpd, ctx, pauses, resumes, player, speaker,
                 orphans, sessionVars, vanity_idx, raised, exc, said>>
  /\ UNCHANGED <<pending, discarded>>
  /\ UNCHANGED <<cacheVars, pureVars>>

----------------------------------------------------------------------------

(* what listen_stdin does with the key its read returned, and what the    *)
(* loops of navigate_menu, help_menu and the search do with theirs        *)
listen_stdin(char) ==
  \/ ListenExit(char) \/ ListenNoop(char) \/ toggle_playback(char)
  \/ stop(char) \/ clear(char) \/ number(char) \/ EnterFails(char)
  \/ OpenMenu(char) \/ enter(char) \/ back(char) \/ NotImplemented(char)
  \/ down(char) \/ info(char)

navigate_menu(char) ==
  \/ MenuBack(char) \/ MenuMove(char) \/ MenuEnterPower(char)
  \/ MenuEnterSetup(char) \/ MenuEnterSetupFails(char) \/ MenuOther(char)

help_menu(char) == HelpBack(char) \/ HelpKey(char)

search(char) ==
  \/ SearchBack(char) \/ SearchEdit(char) \/ SearchEditFails(char)
  \/ SearchInfo(char) \/ SearchMove(char) \/ SearchEnter(char)
  \/ SearchEnterFails(char) \/ SearchOther(char)

Next ==
  \/ \E char \in Keys :
       listen_stdin(char) \/ navigate_menu(char) \/ help_menu(char)
         \/ search(char)
  \/ InfoSpeak \/ InfoFails \/ Flush
  \/ SayFails \/ SayLeave \/ SayOk \/ SayQuery
  \/ MenuPosition \/ MenuEntry \/ PowerUpdate \/ PowerUpdateFails
  \/ NarrationEnds \/ KilledDies \/ StrayEnds \/ TypeAhead

Spec == Init /\ [][Next]_vars

----------------------------------------------------------------------------
(* Speech.prefetch, one action per step at which another process, a       *)
(* failure or a crash can come in between.                                 *)

Active(r) == speech[r].pc \in {"check", "read", "fetch", "mkdir", "open", "write"}

(* the other processes that are resolving a text right now *)
Resolving(r, text) == {o \in Resolvers \ {r} : Active(o) /\ speech[o].text = text}

(* what a resolution that returns leaves in settled *)
Settle(r, audio) ==
  IF speech[r].cache /\ speech[r].alone
  THEN [settled EXCEPT ![Hash(speech[r].text)] = audio]
  ELSE settled

(* Speech(text) and the call of prefetch(cache) *)
NewSpeech(r) ==
  /\ speech[r].pc = "idle"
  /\ \E text \in Texts, cache \in BOOLEAN :
       speech' = [o \in Resolvers |->
                    IF o = r
                    THEN [NoSpeech EXCEPT !.pc = "check", !.text = text,
                                          !.cache = cache,
                                          !.expect = IF cache THEN settled[Hash(text)]
                                                     ELSE None,
                                          !.alone = Resolving(r, text) = {}]
                    ELSE IF o \in Resolving(r, text)
                    THEN [speech[o] EXCEPT !.alone = FALSE]
                    ELSE speech[o]]
  /\ UNCHANGED <<files, cache_dir, settled, remoteVars, pureVars>>

(* the branch prefetch takes on a Speech object s when the file of its    *)
(* text is there                                                           *)
ReadsEntryOnlyWhenCaching(s) == s.cache

ReadsEntry(s) == TRUE

(* self.file.exists() *)
PrefetchCheck(r) ==
  /\ speech[r].pc = "check"
  /\ LET there == files[Hash(speech[r].text)] # None IN
     speech' = [speech EXCEPT ![r].existed = there,
                              ![r].pc = IF there /\ ReadsEntry(speech[r])
                                        THEN "read" ELSE "fetch"]
  /\ UNCHANGED <<files, cache_dir, settled, remoteVars, pureVars>>

(* the file is read, whatever it holds *)
PrefetchRead(r) ==
  /\ speech[r].pc = "read"
  /\ LET audio == files[Hash(speech[r].text)] IN
     /\ speech' = [speech EXCEPT ![r].pc = "done", ![r].audio = audio,
                                 ![r].hit = TRUE]
     /\ settled' = Settle(r, audio)
  /\ UNCHANGED <<files, cache_dir, remoteVars, pureVars>>

(* whether prefetch writes what it fetched to the cache *)
PersistsNever(s) == FALSE

Persists(s) == s.cache

(* self.gtts.write_to_fp(self.audio): the backend is called *)
PrefetchFetch(r) ==
  /\ speech[r].pc = "fetch"
  /\ speech' = [speech EXCEPT ![r].audio = Some(Synth(speech[r].text)),
                              ![r].synth = @ + 1,
                              ![r].pc = IF Persists(speech[r]) THEN "mkdir"
                                        ELSE "done"]
  /\ settled' = IF Persists(speech[r]) THEN settled
                ELSE Settle(r, Some(Synth(speech[r].text)))
  /\ UNCHANGED <<files, cache_dir, remoteVars, pureVars>>

(* the directory is made if it is not there *)
PrefetchMkdir(r) ==
  /\ speech[r].pc = "mkdir"
  /\ cache_dir' = TRUE
  /\ speech' = [speech EXCEPT ![r].pc = "open"]
  /\ UNCHANGED <<files, settled, remoteVars, pureVars>>

(* self.file.open("wb"): the file is created, or truncated, under its     *)
(* final name                                                              *)
PrefetchOpen(r) ==
  /\ speech[r].pc = "open"
  /\ files' = [files EXCEPT ![Hash(speech[r].text)] = Some(<<>>)]
  /\ speech' = [speech EXCEPT ![r].pc = "write", ![r].opened = TRUE]
  /\ UNCHANGED <<cache_dir, settled, remoteVars, pureVars>>

(* a piece written at an offset of a file: a gap before it reads as a     *)
(* hole                                                                    *)
Pwrite(content, off, piece) ==
  [i \in 1..(IF Len(content) > off THEN Len(content) ELSE off + 1) |->
     IF i = off + 1 THEN piece
     ELSE IF i <= Len(content) THEN content[i] ELSE Hole]

(* self.gtts.write_to_fp(file): the backend is called a second time and   *)
(* its audio goes to the file piece by piece; after the last piece the    *)
(* file is closed and prefetch returns                                     *)
PrefetchWrite(r) ==
  /\ speech[r].pc = "write"
  /\ LET s == speech[r]
         h == Hash(s.text)
         last == s.off + 1 = AudioLen
     IN /\ files' = [files EXCEPT ![h] =
                           Some(Pwrite(The(@), s.off, Synth(s.text)[s.off + 1]))]
        /\ speech' = [speech EXCEPT ![r].off = @ + 1,
                                    ![r].synth = IF s.off = 0 THEN @ + 1 ELSE @,
                                    ![r].pc = IF last THEN "done" ELSE "write"]
        /\ settled' = IF last THEN Settle(r, s.audio) ELSE settled
  /\ UNCHANGED <<cache_dir, remoteVars, pureVars>>

(* the backend fails, or the file system does: prefetch raises.  What was *)
(* written stays.                                                          *)
PrefetchFails(r) ==
  /\ speech[r].pc \in {"fetch", "mkdir", "open", "write"}
  /\ speech' = [speech EXCEPT ![r].pc = "failed",
                              ![r].synth = IF speech[r].pc = "fetch"
                                             \/ (speech[r].pc = "write"
                                                 /\ speech[r].off = 0)
                                           THEN @ + 1 ELSE @]
  /\ settled' = [settled EXCEPT ![Hash(speech[r].text)] = None]
  /\ UNCHANGED <<files, cache_dir, remoteVars, pureVars>>

(* the process dies *)
Crash(r) ==
  /\ Active(r)
  /\ speech' = [speech EXCEPT ![r].pc = "crashed"]
  /\ settled' = [settled EXCEPT ![Hash(speech[r].text)] = None]
  /\ UNCHANGED <<files, cache_dir, remoteVars, pureVars>>

(* the Speech object is dropped *)
Drop(r) ==
  /\ speech[r].pc \in {"done", "failed", "crashed"}
  /\ speech' = [speech EXCEPT ![r] = NoSpeech]
  /\ UNCHANGED <<files, cache_dir, settled, remoteVars, pureVars>>

NextCache ==
  \E r \in Resolvers :
    \/ NewSpeech(r) \/ PrefetchCheck(r) \/ PrefetchRead(r) \/ PrefetchFetch(r)
    \/ PrefetchMkdir(r) \/ PrefetchOpen(r) \/ PrefetchWrite(r)
    \/ PrefetchFails(r) \/ Crash(r) \/ Drop(r)

SpecCache == Init /\ [][NextCache]_vars

----------------------------------------------------------------------------
(* vanity.to_regex on its own: a digit string is typed, and a pattern is   *)
(* derived from it in a mode.                                              *)

VanityDigits == {"0", "1", "2"}

VanityType(char) ==
  /\ Len(typed) < MaxQuery
  /\ typed' = Append(typed, char)
  /\ derived' = [mode \in DOMAIN derived |-> <<>>]
  /\ UNCHANGED beyondVanity

(* to_regex(typed, mode) returns the compiled pattern *)
VanityDerive(mode) ==
  /\ Compiles(to_regex(typed, mode))
  /\ derived' = [derived EXCEPT ![mode] = to_regex(typed, mode)]
  /\ UNCHANGED <<typed, beyondVanity>>

(* ... or re.compile raises *)
VanityDeriveFails(mode) ==
  /\ ~Compiles(to_regex(typed, mode))
  /\ UNCHANGED vars

NextVanity ==
  \/ \E char \in VanityDigits : VanityType(char)
  \/ \E i \in DOMAIN MODES : VanityDerive(MODES[i])
  \/ \E i \in DOMAIN MODES : VanityDeriveFails(MODES[i])

SpecVanity == Init /\ [][NextVanity]_vars

----------------------------------------------------------------------------
(* Remote.navigate_menu on its own, called by power and by setup, with the *)
(* settings of the setup entries and with a closing text or none.          *)

NavMenus == {"power", "setup"}
NavEndWith == {"", "Goodbye."}
NavLen(m) == IF m = "power" THEN 3 ELSE 5

(* option(key): info and toggle *)
OptionInfo(value) ==
  CASE value = "0" -> "off" [] value = "1" -> "on" [] OTHER -> "one shot"

OptionToggle(key, value) ==
  IF key = "single"
  THEN CASE value = "0" -> "1" [] value = "1" -> "oneshot" [] OTHER -> "0"
  ELSE IF value = "0" THEN "1" ELSE "0"

OptionValues(key) ==
  CASE key = "single" -> {"0", "1", "oneshot"}
    [] key = "replay-gain" -> {"off", "auto", "track", "album"}
    [] OTHER -> {"0", "1"}

(* Client.toggle_replay_gain *)
toggle_replay_gain(state) ==
  CASE state = "off" -> "auto" [] state = "auto" -> "track"
    [] state = "track" -> "album" [] OTHER -> "off"

(* a variant of MuteContext.update that keeps the old snapshot *)
NavUpdateKeepsSnapshot(n, settings) == n

(* MuteContext.update: the snapshot is read from the server again *)
NavUpdate(n, settings) ==
  [n EXCEPT !.status = [key \in StatusKeys |-> settings[key]], !.changes = 0]

(* menu[index][0], called with the scope when it is not a string *)
NavLabel(n, settings) ==
  IF n.menu = "power"
  THEN << <<"Update library?">>, <<"Restart system?">>,
          <<"Shutdown system?">> >>[n.index + 1]
  ELSE LET key == SetupKeys[n.index + 1]
       IN IF key = "replay-gain" THEN <<key, settings[key]>>
          ELSE <<key, OptionInfo(n.status[key])>>

(* what menu[index][1](ctx) narrates last, in the power menu *)
NavActionSays(n) ==
  << <<"Done.">>, <<"Restarting system.">>,
     <<"Shutting down system.">> >>[n.index + 1]

(* what menu[index][1](ctx) does to the server, in the setup menu *)
NavActionSets(n, settings) ==
  LET key == SetupKeys[n.index + 1]
  IN [settings EXCEPT ![key] =
        IF key = "replay-gain" THEN toggle_replay_gain(settings[key])
        ELSE OptionToggle(key, n.status[key])]

(* navigate_menu is left, by break or by an exception: its locals and the *)
(* scope are gone                                                          *)
NavReturn(n, how, text) ==
  [NoNav EXCEPT !.pc = how, !.said = text, !.invoked = n.invoked]

(* power and setup: the scope is created and navigate_menu speaks the title *)
NavOpen(m, e) ==
  /\ nav.pc \in {"idle", "closed", "failed"}
  /\ nav' = NavUpdate([NoNav EXCEPT !.pc = "position", !.menu = m,
                                    !.end_with = e,
                                    !.said = <<IF m = "power" THEN "Power menu."
                                               ELSE "Setup menu.">>],
                      server)
  /\ UNCHANGED <<server, beyondNav>>

(* the top of the loop: the position and the label are narrated, then the  *)
(* read                                                                     *)
NavNarrate ==
  /\ nav.pc = "position"
  /\ nav' = [nav EXCEPT !.pc = "read", !.said = NavLabel(nav, server)]
  /\ UNCHANGED <<server, beyondNav>>

NavBack(char) ==
  /\ nav.pc = "read"
  /\ char \in PREV_KEYS
  /\ nav' = NavReturn([nav EXCEPT !.invoked = -1], "closed", <<"Back.">>)
  /\ UNCHANGED <<server, beyondNav>>

NavMove(char) ==
  /\ nav.pc = "read"
  /\ char \in {"down", "up"}
  /\ nav' = [nav EXCEPT !.pc = "position", !.invoked = -1,
                        !.index = IF char = "down"
                                  THEN IndexDown(nav.index, NavLen(nav.menu))
                                  ELSE IndexUp(nav.index, NavLen(nav.menu))]
  /\ UNCHANGED <<server, beyondNav>>

(* an enter key: remain = menu[index][1](ctx); the setup entries return    *)
(* True, the power entries None                                            *)
NavEnter(char) ==
  /\ nav.pc = "read"
  /\ char \in ENTER_KEYS
  /\ IF nav.menu = "setup"
     THEN /\ server' = NavActionSets(nav, server)
          /\ nav' = NavUpdate([nav EXCEPT !.pc = "position",
                                          !.invoked = nav.index], server')
     ELSE /\ server' = server
          /\ nav' = NavReturn([nav EXCEPT !.invoked = nav.index], "closed",
                              IF nav.end_with # "" THEN <<nav.end_with>>
                              ELSE NavActionSays(nav))
  /\ UNCHANGED beyondNav

(* ... or the command of the entry fails in the backend *)
NavEnterFails(char) ==
  /\ nav.pc = "read"
  /\ char \in ENTER_KEYS
  /\ nav.menu = "setup" \/ nav.index = 0
  /\ nav' = NavReturn([nav EXCEPT !.invoked = nav.index], "failed",
                      IF nav.menu = "power" THEN <<"Updating library.">>
                      ELSE nav.said)
  /\ UNCHANGED <<server, beyondNav>>

NavOther(char) ==
  /\ nav.pc = "read"
  /\ char \notin PREV_KEYS \cup ENTER_KEYS \cup {"down", "up"}
  /\ nav' = [nav EXCEPT !.pc = "position", !.invoked = -1,
                        !.said = <<"Use directional buttons.">>]
  /\ UNCHANGED <<server, beyondNav>>

(* another client of the server changes the setting of the entry the      *)
(* setup menu waits at                                                     *)
OtherClient(key, value) ==
  /\ nav.pc = "read" /\ nav.menu = "setup"
  /\ key = SetupKeys[nav.index + 1]
  /\ server[key] # value
  /\ nav.changes < MaxChanges
  /\ server' = [server EXCEPT ![key] = value]
  /\ nav' = [nav EXCEPT !.changes = nav.changes + 1]
  /\ UNCHANGED beyondNav

NavKey(char) ==
  \/ NavBack(char)
  \/ NavMove(char)
  \/ NavEnter(char)
  \/ NavEnterFails(char)
  \/ NavOther(char)

NextMenu ==
  \/ \E m \in NavMenus, e \in NavEndWith : NavOpen(m, e)
  \/ NavNarrate
  \/ \E char \in Keys : NavKey(char)
  \/ \E key \in SettingKeys : \E value \in OptionValues(key) :
       OtherClient(key, value)

SpecMenu == Init /\ [][NextMenu]_vars

----------------------------------------------------------------------------
(* Remote.help_menu on its own, under an interpreter that keeps the        *)
(* docstrings of the actions or strips them (python -OO).                  *)

(* a variant in which every action has its description *)
DocKept(char, docs) == Doc(char)

(* action.__doc__: number sets the description of the function it returns  *)
(* itself, the other descriptions are docstrings                           *)
DocUnder(char, docs) == IF docs \/ char \in DigitKeys THEN Doc(char) ELSE ""

(* DenonRC1223.enter: the scope, and help_menu up to its first read *)
HelpOpen(docs) ==
  /\ help.pc \in {"idle", "closed"}
  /\ help' = [help EXCEPT !.pc = "read", !.docs = docs,
                          !.said = "Press a button for help.",
                          !.player = "running", !.reaped = "none"]
  /\ UNCHANGED beyondHelp

(* the narration plays to its end while help_menu waits for a key *)
HelpNarrationEnds ==
  /\ help.pc = "read" /\ help.player = "running"
  /\ help' = [help EXCEPT !.player = "exited"]
  /\ UNCHANGED beyondHelp

(* a key is read: player.terminate(), player.wait(), then the branch of    *)
(* the key                                                                  *)
HelpRead(char) ==
  /\ help.pc = "read"
  /\ help' =
       IF char \in BACK_KEYS
       THEN [help EXCEPT !.pc = "closed", !.said = "Back.",
                         !.player = TerminateWait(help.player),
                         !.reaped = help.said]
       ELSE [help EXCEPT
               !.said = IF char \in BoundKeys
                        THEN (IF DocUnder(char, help.docs) # ""
                              THEN DocUnder(char, help.docs)
                              ELSE "Sorry, this button is undocumented.")
                        ELSE "Sorry, this input event is unmapped.",
               !.player = "running",
               !.reaped = help.said]
  /\ UNCHANGED beyondHelp

NextHelp ==
  \/ \E docs \in BOOLEAN : HelpOpen(docs)
  \/ HelpNarrationEnds
  \/ \E char \in Keys : HelpRead(char)

SpecHelp == Init /\ [][NextHelp]_vars

----------------------------------------------------------------------------
(* MuteContext.update and MuteContext.current on their own.  The server    *)
(* answers the status command and the playlistinfo command of update one   *)
(* after the other, and its queue may change in between.  Track k of a     *)
(* queue is the number k; song is -1 when the status has no "song".        *)

Queues == {[i \in 1..n |-> i] : n \in 0..MaxQueue}

(* the states the server can be in: it plays or pauses a song of its queue *)
DaemonStates ==
  {d \in [state : {"play", "pause", "stop"}, song : -1..(MaxQueue - 1),
          queue : Queues] :
     /\ d.song < Len(d.queue)
     /\ d.state # "stop" => d.song >= 0}

(* a variant that returns the first entry whatever the state *)
current_first(c) ==
  IF c.playlist # <<>>
  THEN [raised |-> FALSE, track |-> Some(c.playlist[1])]
  ELSE [raised |-> FALSE, track |-> None]

(* MuteContext.current; raised when the subscript raises *)
current(c) ==
  IF c.status.state # "stop"
  THEN IF c.status.song \in 0..(Len(c.playlist) - 1)
       THEN [raised |-> FALSE, track |-> Some(c.playlist[c.status.song + 1])]
       ELSE [raised |-> TRUE, track |-> None]
  ELSE IF c.playlist # <<>>
       THEN [raised |-> FALSE, track |-> Some(c.playlist[1])]
       ELSE [raised |-> FALSE, track |-> None]

(* playback or another client changes the server *)
DaemonChanges(d) ==
  /\ d # daemon
  /\ scope.pc \in {"idle", "status", "ready"}
  /\ daemon' = d
  /\ UNCHANGED <<scope, beyondCurrent>>

(* Client.status: api.status() ... *)
UpdateStatus ==
  /\ scope.pc \in {"idle", "done"}
  /\ scope' = [NoScope EXCEPT !.pc = "status",
                              !.status = [state |-> daemon.state,
                                          song |-> daemon.song]]
  /\ UNCHANGED <<daemon, beyondCurrent>>

(* ... and api.playlistinfo() *)
UpdatePlaylist ==
  /\ scope.pc = "status"
  /\ scope' = [scope EXCEPT !.pc = "ready", !.playlist = daemon.queue]
  /\ UNCHANGED <<daemon, beyondCurrent>>

(* ctx.current() *)
Current ==
  /\ scope.pc = "ready"
  /\ scope' = [scope EXCEPT !.pc = "done", !.raised = current(scope).raised,
                            !.track = current(scope).track]
  /\ UNCHANGED <<daemon, beyondCurrent>>

NextCurrent ==
  \/ \E d \in DaemonStates : DaemonChanges(d)
  \/ UpdateStatus
  \/ UpdatePlaylist
  \/ Current

SpecCurrent == Init /\ [][NextCurrent]_vars

----------------------------------------------------------------------------
(* Speech.play on its own: the process "play" is started with its stdin    *)
(* and stdout piped and its stderr sent to its stdout; communicate feeds   *)
(* it the audio, reads the pipe to its end and waits for the exit.         *)

ExitCodes == {0, 1, 2}

(* a variant with stderr=subprocess.PIPE: the pipe read holds stdout only *)
CapturedStdoutOnly(lines) ==
  SelectSeq(lines, LAMBDA stream : stream = "stdout")

(* stdout=PIPE, stderr=STDOUT: what communicate returns as stdout *)
Captured(lines) == lines

(* subprocess.Popen(["play", ...]) *)
PlaySpawn ==
  /\ render.pc \in {"idle", "returned", "raised"}
  /\ render' = [NoRender EXCEPT !.pc = "running"]
  /\ UNCHANGED beyondPlay

(* the process reads a piece of the audio from its stdin *)
PlayReads ==
  /\ render.pc = "running" /\ render.fed < AudioLen
  /\ render' = [render EXCEPT !.fed = render.fed + 1]
  /\ UNCHANGED beyondPlay

(* the process writes a line to its stdout or to its stderr *)
PlayWrites(stream) ==
  /\ render.pc = "running" /\ Len(render.lines) < MaxLines
  /\ render' = [render EXCEPT !.lines = Append(render.lines, stream)]
  /\ UNCHANGED beyondPlay

(* the process exits, whether or not it has read all of the audio *)
PlayExits(code) ==
  /\ render.pc = "running"
  /\ render' = [render EXCEPT !.pc = "exited", !.code = code]
  /\ UNCHANGED beyondPlay

(* communicate returns and the return code is tested *)
PlayEnds ==
  /\ render.pc = "exited"
  /\ render' = IF render.code # 0
               THEN [render EXCEPT !.pc = "raised",
                                   !.message = Captured(render.lines)]
               ELSE [render EXCEPT !.pc = "returned"]
  /\ UNCHANGED beyondPlay

NextPlay ==
  \/ PlaySpawn
  \/ PlayReads
  \/ \E stream \in {"stdout", "stderr"} : PlayWrites(stream)
  \/ \E code \in ExitCodes : PlayExits(code)
  \/ PlayEnds

SpecPlay == Init /\ [][NextPlay]_vars

----------------------------------------------------------------------------
(* Library.__init__ on its own.  An entry of the listing is a record of    *)
(* its fields, "" for a field it does not have; every entry has a genre    *)
(* and a duration.                                                          *)

Items ==
  [file : {"", "d1/1.flac", "d2/2.flac"}, artist : {"", "A"},
   albumartist : {"", "A"}, album : {"", "X"}, date : {"", "2008"}]

Listings == UNION {[1..n -> Items] : n \in 0..MaxItems}

(* Track.path.parent *)
Parent(item) == IF item.file = "d1/1.flac" THEN "d1" ELSE "d2"

(* "not enough metadata to work with" *)
MissingRequired(item) ==
  (item.albumartist = "" /\ item.artist = "") \/ item.album = ""

(* the first loop: the entries that become tracks, in the order of the     *)
(* listing, with the album artist filled in                                *)
IsTrack(item) == item.file # "" /\ ~MissingRequired(item)

Tracks(data) ==
  LET kept == SelectSeq(data, IsTrack)
  IN [i \in DOMAIN kept |->
        [kept[i] EXCEPT !.albumartist =
           IF kept[i].albumartist = "" THEN kept[i].artist ELSE @]]

(* lib[art][alb] *)
TracksOf(data, art, alb) ==
  SelectSeq(Tracks(data),
            LAMBDA trck : trck.albumartist = art /\ trck.album = alb)

AlbumKeys(data) ==
  {<<Tracks(data)[i].albumartist, Tracks(data)[i].album>> :
     i \in DOMAIN Tracks(data)}

(* Library._check_tracks: whether an assertion fails *)
_check_tracks(tracks) ==
  \/ Len(tracks) = 0
  \/ \E i \in DOMAIN tracks :
       \/ tracks[i].albumartist # tracks[1].albumartist
       \/ tracks[i].album # tracks[1].album
       \/ Parent(tracks[i]) # Parent(tracks[1])

(* Album.__init__: tracks[0].date raises KeyError when the first track has *)
(* no date                                                                  *)
AlbumRaises(tracks) == tracks[1].date = ""

Album(tracks) ==
  [artist |-> tracks[1].albumartist, title |-> tracks[1].album,
   path |-> Parent(tracks[1]), tracks |-> tracks]

LibraryErrors(data) ==
  Cardinality({i \in DOMAIN data :
                 data[i].file # "" /\ MissingRequired(data[i])})
  + Cardinality({key \in AlbumKeys(data) :
                   _check_tracks(TracksOf(data, key[1], key[2]))})

LibraryWarnings(data) ==
  Cardinality({i \in DOMAIN data :
                 IsTrack(data[i]) /\ data[i].albumartist = ""})

(* Library(data) returns *)
LibraryInit(data) ==
  /\ library.pc = "idle"
  /\ \A key \in AlbumKeys(data) : ~AlbumRaises(TracksOf(data, key[1], key[2]))
  /\ library' = [pc |-> "loaded", data |-> data,
                 errors |-> LibraryErrors(data),
                 warnings |-> LibraryWarnings(data),
                 albums |-> {Album(TracksOf(data, key[1], key[2])) :
                               key \in AlbumKeys(data)}]
  /\ UNCHANGED beyondLibrary

(* ... or Album(trcks) raises and there is no Library *)
LibraryInitRaises(data) ==
  /\ library.pc = "idle"
  /\ \E key \in AlbumKeys(data) : AlbumRaises(TracksOf(data, key[1], key[2]))
  /\ library' = [NoLibrary EXCEPT !.pc = "raised", !.data = data]
  /\ UNCHANGED beyondLibrary

NextLibrary ==
  \/ \E data \in Listings : LibraryInit(data)
  \/ \E data \in Listings : LibraryInitRaises(data)

SpecLibrary == Init /\ [][NextLibrary]_vars

----------------------------------------------------------------------------
(* The number pad, random and repeat of DenonRC1223 on their own: a key is *)
(* read by prompt_stdin, its action runs, flush_stdin follows.             *)

\* the number-pad keys of the model, and the keys pressed: those, repeat
\* ("p"), random ("r") and clear ("l")
NumberPad == {"0", "2", "+"}
PadKeys == NumberPad \cup {"p", "r", "l"}

(* the number-pad function that runs when _actions[char]() is called while *)
(* _repeat_char is rc: random calls _actions["0"], repeat calls            *)
(* _actions[rc], which is repeat again when rc is "p"                      *)
PadTarget(char, rc) ==
  CASE char \in NumberPad -> char
    [] char = "r" -> "0"
    [] char = "p" -> (IF rc = "p" THEN "RecursionError"
                      ELSE IF rc = "r" THEN "0" ELSE rc)
    [] OTHER -> "none"

(* prompt_stdin *)
PadPress(char) ==
  /\ pad.pc = "top"
  /\ pad' = [pad EXCEPT !.pc = "dispatch", !._input_char = char,
                        !.pressed = IF char \in NumberPad THEN char ELSE @]
  /\ UNCHANGED beyondPad

(* self._actions[char](): func of number and number_plus store the key     *)
(* that was read in _repeat_char                                           *)
PadDispatch ==
  /\ pad.pc = "dispatch"
  /\ LET target == PadTarget(pad._input_char, pad._repeat_char)
     IN pad' =
          CASE target = "RecursionError" ->
                 [pad EXCEPT !.pc = "crashed", !.exc = "RecursionError"]
            [] target = "none" ->
                 [pad EXCEPT !.pc = "flush", !.invoked = "none"]
            [] OTHER ->
                 [pad EXCEPT !.pc = "flush", !.invoked = target,
                             !._repeat_char = pad._input_char]
  /\ UNCHANGED beyondPad

(* ... or the command of the number-pad function fails in the backend:     *)
(* func has stored the key by then, number_plus has not                    *)
PadDispatchFails ==
  /\ pad.pc = "dispatch"
  /\ LET target == PadTarget(pad._input_char, pad._repeat_char)
     IN /\ target \in NumberPad
        /\ pad' = [pad EXCEPT !.pc = "crashed", !.exc = "backend",
                              !.invoked = target,
                              !._repeat_char = IF target = "+" THEN @
                                               ELSE pad._input_char]
  /\ UNCHANGED beyondPad

(* flush_stdin *)
PadFlush ==
  /\ pad.pc = "flush"
  /\ pad' = [pad EXCEPT !.pc = "top", !._input_char = "None"]
  /\ UNCHANGED beyondPad

NextPad ==
  \/ \E char \in PadKeys : PadPress(char)
  \/ PadDispatch
  \/ PadDispatchFails
  \/ PadFlush

SpecPad == Init /\ [][NextPad]_vars

----------------------------------------------------------------------------
(* Client.play_album, play_random and play_recent on their own             *)
(* (backend.py:99-120): the album is chosen, then clear, one add for each  *)
(* file of the album, and play are sent to the MPD server; the connection  *)
(* and every command may fail.                                             *)

(* Album.files of the albums of the library, in the order of their tracks *)
AlbumFiles ==
  << <<"Ab/c/1", "Ab/c/2">>, <<"bad/1">>, <<"xa/B/1", "xa/B/2">> >>

(* Album.newest_modified of the albums *)
NewestModified == <<3, 1, 2>>

(* the arguments of play_random: the genres of a digit, or None *)
GenreArgs ==
  {[given |-> TRUE, genres |-> Genres(num)] : num \in {"1", "2", "0", "9"}}
    \cup {[given |-> FALSE, genres |-> {}]}

(* Library.random_album: the albums random.choice draws from *)
random_album(arg) ==
  IF arg.given THEN albums_with_genres(arg.genres) ELSE 1..NAlbums

(* Library.recent_albums: the albums sorted by newest_modified, cut at     *)
(* limit                                                                   *)
recent_albums(limit) ==
  LET sorted == CHOOSE q \in [1..NAlbums -> 1..NAlbums] :
                  /\ \A a \in 1..NAlbums : \E i \in 1..NAlbums : q[i] = a
                  /\ \A i, j \in 1..NAlbums :
                       i < j => NewestModified[q[i]] <= NewestModified[q[j]]
  IN SubSeq(sorted, 1, IF limit < NAlbums THEN limit ELSE NAlbums)

(* a call starts: with_api connects before the method body runs *)
ClientCall(method, arg, from) ==
  /\ backend.pc \in {"idle", "done", "failed"}
  /\ backend.calls < MaxCalls
  /\ backend' = [backend EXCEPT !.pc = "connect", !.method = method,
                                !.arg = arg, !.from = from, !.album = 0,
                                !.i = 0, !.sent = <<>>, !.exc = "none",
                                !.before = backend.queue,
                                !.calls = @ + 1]
  /\ UNCHANGED beyondBackend

(* Client.play_album(album) *)
ClientPlayAlbum ==
  \E album \in 1..NAlbums :
    ClientCall("play_album", [given |-> FALSE, genres |-> {}], {album})

(* Client.play_random(genres) *)
ClientPlayRandom ==
  \E arg \in GenreArgs : ClientCall("play_random", arg, random_album(arg))

(* Client.play_recent(limit) *)
ClientPlayRecent ==
  \E limit \in {1, 2, 100} :
    ClientCall("play_recent", [given |-> FALSE, genres |-> {}],
               {recent_albums(limit)[i] : i \in DOMAIN recent_albums(limit)})

(* a variant in which the queue is cleared before the album is chosen *)
ChooseAlbumAfterClear ==
  /\ backend.pc = "connect"
  /\ IF backend.from = {}
     THEN backend' = [backend EXCEPT !.pc = "failed", !.exc = "index",
                        !.sent = <<[cmd |-> "clear", arg |-> ""]>>,
                        !.queue = <<>>, !.state = "stop"]
     ELSE \E album \in backend.from :
            backend' = [backend EXCEPT !.pc = "clear", !.album = album]
  /\ UNCHANGED beyondBackend

(* the first statement of play_random and play_recent: random.choice of   *)
(* an empty list raises IndexError                                         *)
ChooseAlbum ==
  /\ backend.pc = "connect"
  /\ IF backend.from = {}
     THEN backend' = [backend EXCEPT !.pc = "failed", !.exc = "index"]
     ELSE \E album \in backend.from :
            backend' = [backend EXCEPT !.pc = "clear", !.album = album]
  /\ UNCHANGED beyondBackend

(* api.clear() *)
ApiClear ==
  /\ backend.pc = "clear"
  /\ backend' = [backend EXCEPT !.pc = "add", !.i = 1,
                   !.sent = Append(@, [cmd |-> "clear", arg |-> ""]),
                   !.queue = <<>>, !.state = "stop"]
  /\ UNCHANGED beyondBackend

(* api.add(str(file)) for the next file of album.files *)
ApiAdd ==
  /\ backend.pc = "add"
  /\ backend.i <= Len(AlbumFiles[backend.album])
  /\ LET file == AlbumFiles[backend.album][backend.i]
     IN backend' = [backend EXCEPT !.i = @ + 1,
                      !.sent = Append(@, [cmd |-> "add", arg |-> file]),
                      !.queue = Append(@, file)]
  /\ UNCHANGED beyondBackend

(* api.play() after the last file *)
ApiPlay ==
  /\ backend.pc = "add"
  /\ backend.i > Len(AlbumFiles[backend.album])
  /\ backend' = [backend EXCEPT !.pc = "done",
                   !.sent = Append(@, [cmd |-> "play", arg |-> ""]),
                   !.state = IF backend.queue # <<>> THEN "play" ELSE @]
  /\ UNCHANGED beyondBackend

(* the connection or the command that is next fails *)
ApiFails ==
  /\ backend.pc \in {"connect", "clear", "add"}
  /\ backend' = [backend EXCEPT !.pc = "failed", !.exc = "backend"]
  /\ UNCHANGED beyondBackend

NextBackend ==
  \/ ClientPlayAlbum
  \/ ClientPlayRandom
  \/ ClientPlayRecent
  \/ ChooseAlbum
  \/ ApiClear
  \/ ApiAdd
  \/ ApiPlay
  \/ ApiFails

SpecBackend == Init /\ [][NextBackend]_vars

----------------------------------------------------------------------------
(* The remote with the search sessions only: of the commands of the        *)
(* listening loop, 'down' opens a search and play/pause changes what the   *)
(* daemon does when a session starts.                                      *)

NextSearch ==
  \/ \E char \in Keys :
       down(char) \/ toggle_playback(char) \/ ListenNoop(char)
         \/ search(char)
  \/ Flush \/ SayFails \/ SayLeave \/ SayOk \/ SayQuery
  \/ NarrationEnds \/ StrayEnds \/ TypeAhead

SpecSearch == Init /\ [][NextSearch]_vars

----------------------------------------------------------------------------
(* The remote with a user who presses a back key again and again, and      *)
(* with narrations and backend calls that return: a back key is read       *)
(* infinitely often if a session reads infinitely often, and a blocking    *)
(* narration or call that has started ends.                                 *)

BackPressed ==
  \E char \in BACK_KEYS : MenuBack(char) \/ HelpBack(char) \/ SearchBack(char)

CallReturns ==
  \/ InfoSpeak \/ InfoFails
  \/ SayFails \/ SayLeave \/ SayOk \/ SayQuery
  \/ MenuPosition \/ MenuEntry \/ PowerUpdate \/ PowerUpdateFails

SpecLive == Spec /\ SF_vars(BackPressed) /\ WF_vars(CallReturns)

----------------------------------------------------------------------------
(* Properties of the remote, checked under Spec.                           *)

(* C1: a scope created while the player is playing issues one pause on    *)
(* entry and, however it is left, exactly one resume; a scope created     *)
(* while the player is paused or stopped issues neither.  update() inside *)
(* the scope does not change this.                                         *)
C1_ResumeExactlyOnce ==
  LET was == IF ctx.created = "play" THEN 1 ELSE 0 IN
  /\ ctx.phase = "open" => pauses = was /\ resumes = 0
  /\ ctx.phase = "closed" => pauses = was /\ resumes = was

(* a scope created while playing, refreshed inside, left by a failure *)
C1_Witness ==
  /\ ctx.phase = "closed"
  /\ ctx.created = "play"
  /\ ctx.state = "pause"
  /\ raised # "none"
  /\ resumes = 1

(* C2: an action that raises is answered by the spoken error message and  *)
(* the loop of listen_stdin stays alive.                                   *)
C2_LoopSurvivesActionFailure ==
  exc # "none" => pc # "crashed" /\ said = "Sorry, an error occurred."

(* C3: when the logic enclosed by a scope that paused the player fails,   *)
(* the failure that reaches the caller of the scope is that failure, also *)
(* when the resume fails.                                                  *)
C3_OriginalFailureNotMasked ==
  (ctx.phase = "closed" /\ ctx.resume /\ raised # "none") => exc = raised

(* C4: once a key has been read in a loop, the narration in flight has    *)
(* been killed and has terminated before anything else happens: no killed *)
(* narration is ever still alive.                                          *)
C4_KillIsAwaited == player # "killed" /\ ~orphans

(* the narration processes that may be running *)
Live ==
  (IF player \in {"running", "killed"} THEN 1 ELSE 0)
  + (IF speaker = "running" THEN 1 ELSE 0)
  + (IF orphans THEN 1 ELSE 0)
  + (IF stray THEN 1 ELSE 0)

(* C5: at most one narration process is running. *)
C5_AtMostOneNarration == Live <= 1

(* C9: the index of a menu of n entries is the number of down presses     *)
(* minus the number of up presses, modulo n: it starts at 0, wraps at     *)
(* both ends and stays within 0..n-1, and after a move the loop goes on   *)
(* with the position of the new index.                                     *)
C9_MenuIndexWraps ==
  menu # "none" =>
    /\ index \in 0..(MenuLen - 1)
    /\ index = moves % MenuLen
    /\ (pc = "say" /\ cont = "entry") => said = ToString(index + 1)

(* n down presses from index 0 are back at index 0 *)
C9_Witness == menu = "setup" /\ pc = "menu" /\ moves = MenuLen /\ index = 0

(* what the lazy match sequence of the session yields next: the first     *)
(* library entry from the position of the generator on whose key the       *)
(* pattern of the session matches                                          *)
Yields(item) ==
  /\ ctx.generator # 0
  /\ item \in ctx.generator..NAlbums
  /\ Search(Regex, LibraryKeys[item])
  /\ \A k \in ctx.generator..(item - 1) : ~Search(Regex, LibraryKeys[k])

Exhausted ==
  \/ ctx.generator = 0
  \/ \A k \in ctx.generator..NAlbums : ~Search(Regex, LibraryKeys[k])

(* C11: a 'down' key with the cursor at the end of the materialized list  *)
(* appends exactly the next element of the match sequence and moves the    *)
(* cursor onto it, or changes neither list nor cursor when the sequence is *)
(* exhausted or no search was started; with the cursor before the end it   *)
(* moves the cursor by one and pulls nothing.  The list is never longer    *)
(* than the highest cursor position reached since the last search, plus 1. *)
C11_DownPullsAtMostOne ==
  /\ [](Len(ctx.results) <= ctx.reached + 1)
  /\ [][SearchMove("down") =>
         LET n == Len(ctx.results) IN
         IF ctx.index + 1 >= n
         THEN \/ /\ Len(ctx'.results) = n + 1
                 /\ SubSeq(ctx'.results, 1, n) = ctx.results
                 /\ Yields(ctx'.results[n + 1])
                 /\ ctx'.generator = ctx'.results[n + 1] + 1
                 /\ ctx'.index = n
              \/ /\ Exhausted
                 /\ ctx'.results = ctx.results
                 /\ ctx'.index = ctx.index
         ELSE /\ ctx'.index = ctx.index + 1
              /\ ctx'.results = ctx.results
              /\ ctx'.generator = ctx.generator]_vars

C11_Witness ==
  /\ pc = "search" /\ Len(ctx.results) = 2 /\ ctx.index = 1 /\ ctx.reached = 1
  /\ said = LibraryPaths[ctx.results[2]]

(* C10: the cursor of a search session is within -1..len(results)-1, and  *)
(* it is -1 exactly when nothing has been materialized.                   *)
C10_CursorInRange ==
  /\ ctx.index \in -1..(Len(ctx.results) - 1)
  /\ ctx.index = -1 <=> ctx.results = <<>>

(* two matches materialized, and the cursor moved back onto the first *)
C10_Witness ==
  pc = "search" /\ Len(ctx.results) = 2 /\ ctx.index = 0 /\ query # <<>>

(* C34: when a scope that paused the player calls the resume on its exit, *)
(* however the scope is left, no narration process is running.             *)
C34_NoNarrationAtResume ==
  [][(ctx.phase = "open" /\ ctx'.phase = "closed" /\ resumes' = resumes + 1)
       => Live' = 0]_vars

(* C35: scopes do not nest.  A scope is opened only by the listening loop *)
(* at its read, with no scope open; while a scope is open no other pause   *)
(* is issued; the pauses issued by scopes are at most one more than the    *)
(* resumes, and as many whenever the listening loop is at its read or at   *)
(* the flush before it.                                                     *)
C35_ScopesDoNotNest ==
  /\ [](/\ pauses - resumes \in {0, 1}
         /\ pc \in {"top", "flush"} =>
              (ctx.phase # "open" /\ pauses = resumes))
  /\ [][ctx'.phase = "open" =>
          (ctx.phase = "open" \/ (pc = "top" /\ pc' # "top"))]_vars
  /\ [][ctx.phase = "open" =>
          (pauses' = pauses /\ ctx'.phase \in {"open", "closed"}
           /\ ctx'.created = ctx.created)]_vars

(* the listening loop goes on after a scope that paused the player and     *)
(* resumed it                                                               *)
C35_Witness ==
  /\ pc = "flush" /\ ctx.phase = "closed" /\ ctx.created = "play"
  /\ pauses = 1 /\ resumes = 1 /\ mpd.state = "play"

(* C36: with such a user and such calls, a scope that paused the player   *)
(* is left and calls the resume, after which the player plays unless that  *)
(* call failed.  A back key read in a menu, in help mode or in a search    *)
(* narrates "Back." and nothing but the end of the session follows it,     *)
(* whatever the index, the query, the mode and the cursor are.              *)
C36_PausedIsResumed ==
  /\ (ctx.phase = "open" /\ ctx.resume)
       ~> (/\ ctx.phase = "closed" /\ resumes = 1
           /\ exc # "resume" => mpd.state = "play")
  /\ [][(pc \in {"menu", "help", "search"}) =>
          \A char \in BACK_KEYS :
            (navigate_menu(char) \/ help_menu(char) \/ search(char)) =>
              /\ pc' = "say" /\ said' = "Back." /\ cont' = "leave"
              /\ ctx' = ctx /\ mpd' = mpd]_vars
  /\ [][(pc = "say" /\ cont = "leave" /\ pc' # pc) =>
          (ctx'.phase = "closed" /\ menu' = "none" /\ query' = <<>>
           /\ pc' \in {"flush", "crashed"})]_vars

(* a search in fuzzy mode with a match under the cursor, in a scope that   *)
(* paused the player, was left by a back key and the player plays again     *)
C36_Witness ==
  /\ pc = "flush" /\ said = "Back." /\ ctx.phase = "closed"
  /\ ctx.created = "play" /\ resumes = 1 /\ mpd.state = "play"
  /\ vanity_idx # 0

(* C37: while help mode reads keys, whatever key is read, the player and  *)
(* its queue stay as they are, no scope is opened, no menu and no search   *)
(* starts, and no pause or resume is issued; only a back key leaves the    *)
(* reading, for "Back.", after which the scope ends with its resume and    *)
(* no other change of the player.                                           *)
C37_HelpInvokesNothing ==
  /\ [][pc = "help" =>
          /\ mpd' = mpd /\ ctx' = ctx
          /\ pauses' = pauses /\ resumes' = resumes
          /\ menu' = menu /\ query' = query /\ play' = play
          /\ vanity_idx' = vanity_idx /\ exc' = exc
          /\ pc' \in {"help", "say"}
          /\ pc' = "say" => (said' = "Back." /\ cont' = "leave")]_vars
  /\ [][(pc = "help") =>
          \A char \in Keys \ BACK_KEYS : help_menu(char) => pc' = "help"]_vars
  /\ [][(pc = "say" /\ said = "Back." /\ cont = "leave") =>
          \/ mpd' = mpd
          \/ ctx.resume /\ mpd' = [mpd EXCEPT !.state = "play"]]_vars

(* help mode, opened while the player played, has explained the stop key:  *)
(* the player is still paused with its queue                                *)
C37_Witness ==
  /\ pc = "help" /\ said = Doc("/") /\ ctx.phase = "open" /\ ctx.resume
  /\ mpd.state = "pause" /\ mpd.queue # 0 /\ pauses = 1 /\ resumes = 0

----------------------------------------------------------------------------
(* Properties of the speech cache, checked under SpecCache.               *)

TextOf(h) == CHOOSE t \in Texts : Hash(t) = h

(* C6: a resolution with caching of a text that an earlier resolution     *)
(* with caching returned audio for, with no failure and no other process  *)
(* resolving the text in between, reads the cache, does not call the      *)
(* synthesis backend, and returns the same audio.                          *)
C6_SecondResolutionHits ==
  \A r \in Resolvers :
    (speech[r].pc = "done" /\ speech[r].expect # None) =>
      /\ speech[r].hit
      /\ speech[r].synth = 0
      /\ speech[r].audio = speech[r].expect

C6_Witness ==
  \E r \in Resolvers :
    /\ speech[r].pc = "done" /\ speech[r].cache /\ speech[r].hit
    /\ speech[r].expect = Some(Synth(speech[r].text))
    /\ speech[r].audio = speech[r].expect

(* C7, as the code has it: a resolution reads the cache entry whenever    *)
(* there is one, with caching or without, and then does not call the      *)
(* backend; without caching and without an entry it calls the backend     *)
(* once; without caching it never writes to the cache.                     *)
C7_EntryReadWheneverPresent ==
  \A r \in Resolvers :
    /\ ~speech[r].cache => ~speech[r].opened
    /\ speech[r].pc = "done" =>
         /\ speech[r].hit <=> speech[r].existed
         /\ speech[r].hit => speech[r].synth = 0
         /\ (~speech[r].hit /\ ~speech[r].cache) => speech[r].synth = 1

C7_Witness ==
  \E r \in Resolvers :
    /\ speech[r].pc = "done" /\ ~speech[r].cache
    /\ speech[r].existed /\ speech[r].hit /\ speech[r].synth = 0
    /\ speech[r].audio = Some(Synth(speech[r].text))

(* C7, as stated: the cache entry is read only with caching; without      *)
(* caching the backend is called even when there is an entry, and nothing *)
(* is written.                                                             *)
C7_EntryReadOnlyWhenCaching ==
  \A r \in Resolvers :
    speech[r].pc = "done" =>
      /\ speech[r].hit <=> (speech[r].cache /\ speech[r].existed)
      /\ ~speech[r].cache => speech[r].synth = 1 /\ ~speech[r].opened

(* C8: when no process is writing the entry of a text, the file of the    *)
(* text is not there or holds the whole audio: a failure or a crash while *)
(* the entry was written has left no empty or partial file.                *)
C8_NoPartialEntryRemains ==
  \A h \in Hashes :
    (~\E r \in Resolvers : speech[r].pc = "write" /\ Hash(speech[r].text) = h)
      => files[h] \in {None, Some(Synth(TextOf(h)))}

(* C22: a resolution with caching that finds no entry calls the synthesis  *)
(* backend once, and when it returns the cache directory is there and the  *)
(* entry has been written.                                                 *)
C22_MissSynthesizesOnce ==
  \A r \in Resolvers :
    (speech[r].pc = "done" /\ speech[r].cache /\ ~speech[r].hit) =>
      /\ speech[r].synth = 1
      /\ speech[r].opened
      /\ cache_dir

(* C31: whatever other processes resolve the same text at the same time,  *)
(* the audio a resolution returns is the whole synthesized audio of its    *)
(* text: a cache entry is never read empty or in part.                      *)
C31_ResolvedAudioIsWhole ==
  \A r \in Resolvers :
    speech[r].pc = "done" => speech[r].audio = Some(Synth(speech[r].text))

----------------------------------------------------------------------------
(* Properties of the search sessions, checked under SpecSearch.            *)

C25_UpOnlyMovesCursor ==
  [][(pc = "search" /\ pc' = "search") =>
      (SearchMove("up") =>
        /\ ctx'.index = IF ctx.index > 0 THEN ctx.index - 1 ELSE ctx.index
        /\ ctx'.results = ctx.results
        /\ ctx'.generator = ctx.generator
        /\ query' = query
        /\ vanity_idx' = vanity_idx)]_vars

(* two matches were listed and the cursor went back to the first, which is *)
(* being narrated                                                           *)
C25_Witness ==
  /\ pc = "search" /\ Len(ctx.results) = 2 /\ ctx.reached = 1
  /\ ctx.index = 0 /\ player = "running"
  /\ said = LibraryPaths[ctx.results[1]]

(* C26: once a search has been run in a search session, the list is the   *)
(* first k entries of the library, in its order, whose key matches the     *)
(* pattern of the query under the mode, for some k: the entry at position  *)
(* j of the list matches, and exactly j - 1 matching entries come before   *)
(* it in the library.                                                      *)
C26_ListIsPrefixOfMatches ==
  (pc = "search" /\ ctx.generator # 0) =>
    LET matching == {i \in 1..NAlbums : Search(Regex, LibraryKeys[i])}
    IN \A j \in DOMAIN ctx.results :
         /\ ctx.results[j] \in matching
         /\ Cardinality({i \in matching : i < ctx.results[j]}) = j - 1

(* the first and the third album are listed, the second does not match *)
C26_Witness ==
  /\ pc = "search" /\ ctx.generator # 0
  /\ ctx.results = <<1, 3>> /\ ~Search(Regex, LibraryKeys[2])

(* C33: an enter key read in a search session while the cursor is -1      *)
(* chooses no album: the session ends by IndexError, which leaves the      *)
(* search action (or by the failure of the resume), the queue of the       *)
(* player is as it was, and a scope that paused the player calls the       *)
(* resume, after which the player plays.                                    *)
C33_EnterWithoutMatchFails ==
  [][(pc = "search" /\ ctx.index = -1) =>
      \A char \in ENTER_KEYS : search(char) =>
        /\ raised' = "index" /\ exc' \in {"index", "resume"}
        /\ pc' = "crashed" /\ ctx'.phase = "closed"
        /\ play' = 0 /\ mpd'.queue = mpd.queue
        /\ resumes' = resumes + (IF ctx.resume THEN 1 ELSE 0)
        /\ (ctx.resume /\ exc' = "index") => mpd'.state = "play"
        /\ ~ctx.resume => (mpd' = mpd /\ exc' = "index")]_vars

(* the session of a scope that paused the player has ended by IndexError   *)
(* and the player plays again                                              *)
C33_Witness ==
  /\ pc = "crashed" /\ raised = "index" /\ exc = "index"
  /\ ctx.phase = "closed" /\ ctx.created = "play" /\ ctx.resume
  /\ pauses = 1 /\ resumes = 1 /\ mpd.state = "play"

----------------------------------------------------------------------------
(* Properties of the loops of the remote, checked under Spec.              *)

(* C14: listen_stdin ends exactly when the read at the top of its loop     *)
(* returns an exit key, and that key invokes no action; without a failure  *)
(* every other key read there leaves the loop running.  An exit key read   *)
(* in a menu, in help mode or in a search is a back key: "Back." is        *)
(* narrated, only that session ends, and the loop goes on to its flush.    *)
C14_StopsOnlyOnTopLevelExit ==
  /\ [][\A char \in EXIT_KEYS :
         listen_stdin(char) =>
           /\ pc' = "done"
           /\ UNCHANGED <<mpd, ctx, procVars, sessionVars, said, cont, exc>>]_vars
  /\ [][(pc # "done" /\ pc' = "done") =>
           \E char \in EXIT_KEYS : listen_stdin(char)]_vars
  /\ [][\A char \in Keys \ EXIT_KEYS :
         (listen_stdin(char) /\ exc' = "none") =>
           pc' \in {"flush", "say", "fetch", "menu", "help", "search"}]_vars
  /\ [][\A char \in EXIT_KEYS :
         (navigate_menu(char) \/ help_menu(char) \/ search(char)) =>
           /\ pc' = "say" /\ said' = "Back." /\ cont' = "leave"
           /\ UNCHANGED <<mpd, sessionVars>>]_vars
  /\ [][(pc = "say" /\ cont = "leave" /\ pc' # pc /\ exc' = "none") =>
           (pc' = "flush" /\ menu' = "none")]_vars
  /\ [][pc = "flush" => pc' \in {"flush", "top"}]_vars

\* the loop has ended after a search session in which the mode was changed
C14_Witness ==
  /\ pc = "done"
  /\ vanity_idx # 0
  /\ menu = "none"

ReadPcs == {"top", "menu", "help", "search"}

(* C15: every read of listen_stdin and of the menu, help and search loops  *)
(* begins with an empty input queue, and queued input only ever leaves the *)
(* queue by being discarded: what arrived during an action, a blocking     *)
(* narration or the pause is never dispatched.  A narration started in the *)
(* background is still playing when the read begins, and a key pressed     *)
(* while it plays is dispatched.                                           *)
C15_QueuedInputIsDiscarded ==
  /\ [](pc \in ReadPcs => ~pending)
  /\ [][(pending /\ ~pending') => discarded']_vars
  /\ [][\A char \in Keys :
         (listen_stdin(char) \/ navigate_menu(char) \/ help_menu(char)
            \/ search(char)) => (~pending /\ speaker # "running")]_vars

C15_Witness ==
  /\ pc \in ReadPcs \ {"top"}
  /\ discarded
  /\ player = "running"

(* C15 as stated: moreover no key is dispatched that arrived while any     *)
(* narration was in progress.                                              *)
C15_NoKeyDuringAnyNarration ==
  /\ [](pc \in ReadPcs => ~pending)
  /\ [][\A char \in Keys :
         (listen_stdin(char) \/ navigate_menu(char) \/ help_menu(char)
            \/ search(char)) =>
           (~pending /\ speaker # "running" /\ player # "running")]_vars

----------------------------------------------------------------------------
(* Properties of navigate_menu, checked under SpecMenu.                    *)

(* C16: an enter key invokes the action of the entry at the index.  When   *)
(* the action returns true (the setup entries) the command it sent is the  *)
(* one chosen from the snapshot, the snapshot is read again from the       *)
(* server, and the loop goes on at the same index; the label narrated next *)
(* is made from the snapshot (the replay gain label from the server).      *)
(* Otherwise the menu ends, after the closing text when one was given.     *)
(* No other key invokes an action or changes a setting.                    *)
(* nav.invoked is the entry whose action the last key invoked, -1 if none. *)
C16_EnterInvokesAndRefreshes ==
  /\ [][\A char \in ENTER_KEYS :
         NavEnter(char) =>
           /\ nav'.invoked = nav.index
           /\ IF nav.menu = "setup"
              THEN /\ nav'.pc = "position"
                   /\ nav'.index = nav.index
                   /\ \A key \in StatusKeys : nav'.status[key] = server'[key]
                   /\ \A key \in StatusKeys :
                        server'[key] =
                          IF key = SetupKeys[nav.index + 1]
                          THEN OptionToggle(key, nav.status[key])
                          ELSE server[key]
              ELSE /\ nav'.pc = "closed"
                   /\ server' = server
                   /\ nav.end_with # "" => nav'.said = <<nav.end_with>>
                   /\ nav.end_with = "" => nav'.said # <<"Goodbye.">>]_vars
  /\ [][NavNarrate =>
           /\ nav'.index = nav.index /\ nav'.status = nav.status
           /\ nav.menu = "setup" =>
                LET key == SetupKeys[nav.index + 1]
                IN nav'.said = <<key, IF key \in StatusKeys
                                      THEN OptionInfo(nav.status[key])
                                      ELSE server[key]>>]_vars
  /\ [][\A char \in Keys \ ENTER_KEYS :
         (nav.pc = "read" /\ NavKey(char)) =>
           (nav'.invoked = -1 /\ server' = server)]_vars

\* "single" was toggled from "1" and the label read after it says "one shot"
C16_Witness ==
  /\ nav.pc = "read" /\ nav.menu = "setup"
  /\ nav.index = 3 /\ nav.invoked = 3
  /\ nav.said = <<"single", "one shot">>
  /\ server["single"] = "oneshot"

(* C30: a key of a menu that is no back key, no enter key, not 'down' and  *)
(* not 'up' narrates "Use directional buttons.", leaves the index as it is *)
(* and invokes no action; and once that guidance is narrated, the position *)
(* and the label of the entry are not narrated again before the next key   *)
(* is read.                                                                 *)
C30_OtherKeyKeepsWaiting ==
  /\ [][\A char \in Keys \ (PREV_KEYS \cup ENTER_KEYS \cup {"down", "up"}) :
         NavOther(char) =>
           /\ nav'.said = <<"Use directional buttons.">>
           /\ nav'.index = nav.index
           /\ nav'.invoked = -1
           /\ server' = server]_vars
  /\ [][nav.said = <<"Use directional buttons.">> => ~NavNarrate]_vars

----------------------------------------------------------------------------
(* Properties of help_menu, checked under SpecHelp.                        *)

(* C17: help mode opens with its prompt.  Every key read ends the          *)
(* narration before it; then a back key speaks "Back." and closes help     *)
(* mode, a key bound to an action with a description speaks it, a bound    *)
(* key without one speaks the "undocumented" text, and an unbound key the  *)
(* "unmapped" text.                                                        *)
C17_HelpSpeaksDescription ==
  /\ [][\A docs \in BOOLEAN :
         HelpOpen(docs) => (help'.said = "Press a button for help."
                             /\ help'.pc = "read")]_vars
  /\ [][\A char \in Keys :
         HelpRead(char) =>
           /\ help'.reaped = help.said
           /\ help'.player = IF help'.pc = "closed" THEN "exited" ELSE "running"
           /\ char \in BACK_KEYS =>
                (help'.said = "Back." /\ help'.pc = "closed")
           /\ (char \notin BACK_KEYS) => help'.pc = "read"
           /\ (char \in DigitKeys) => help'.said = "Play album."
           /\ (char \in BoundKeys \ (BACK_KEYS \cup DigitKeys)) =>
                help'.said = IF help.docs THEN Doc(char)
                             ELSE "Sorry, this button is undocumented."
           /\ (char \notin BoundKeys \cup BACK_KEYS) =>
                help'.said = "Sorry, this input event is unmapped."]_vars

\* the description of a key was cut off by a key without a description
C17_Witness ==
  /\ help.pc = "read" /\ ~help.docs
  /\ help.reaped = "Play album."
  /\ help.said = "Sorry, this button is undocumented."
  /\ help.player = "running"

----------------------------------------------------------------------------
(* Properties of MuteContext.current, checked under SpecCurrent.           *)

(* C18: current() returns the entry of the snapshot's playlist at the      *)
(* snapshot's song index when the snapshot's state is not "stop" (and      *)
(* raises when the playlist of the snapshot has no such entry); when the   *)
(* state is "stop" it returns the first entry of the playlist, or nothing  *)
(* when the playlist is empty.  It changes neither the snapshot nor the    *)
(* server.                                                                 *)
C18_CurrentFollowsSnapshot ==
  /\ [](scope.pc = "done" =>
         LET state == scope.status.state
             song == scope.status.song
             n == Len(scope.playlist)
         IN /\ (state # "stop" /\ song \in 0..(n - 1)) =>
                 (~scope.raised /\ scope.track = {scope.playlist[song + 1]})
            /\ (state # "stop" /\ song \notin 0..(n - 1)) =>
                 (scope.raised /\ scope.track = {})
            /\ (state = "stop" /\ n > 0) =>
                 (~scope.raised /\ scope.track = {scope.playlist[1]})
            /\ (state = "stop" /\ n = 0) =>
                 (~scope.raised /\ scope.track = {}))
  /\ [][Current => /\ scope'.status = scope.status
                   /\ scope'.playlist = scope.playlist
                   /\ daemon' = daemon]_vars

\* the second entry is returned for a paused snapshot, whatever the server
\* does by now
C18_Witness ==
  /\ scope.pc = "done"
  /\ scope.status = [state |-> "pause", song |-> 1]
  /\ Len(scope.playlist) = 2
  /\ scope.track = {2}
  /\ daemon.state = "stop"

----------------------------------------------------------------------------
(* Properties of Speech.play, checked under SpecPlay.                      *)

(* C19: play ends only after the rendering process has exited; it raises   *)
(* exactly when the exit status is not 0, and the error then carries all   *)
(* the process wrote, to stdout and to stderr; with exit status 0 it       *)
(* returns.                                                                 *)
C19_PlayBlocksAndReportsFailure ==
  /\ [][render'.pc \in {"returned", "raised"} =>
           (render.pc = render'.pc \/ render.pc = "exited")]_vars
  /\ [](render.pc = "raised" =>
          (render.code # 0 /\ render.message = render.lines))
  /\ [](render.pc = "returned" =>
          (render.code = 0 /\ render.message = <<>>))

\* the process wrote to stderr and died before it had read the audio
C19_Witness ==
  /\ render.pc = "raised" /\ render.code = 1
  /\ render.fed < AudioLen
  /\ render.message = <<"stdout", "stderr">>

----------------------------------------------------------------------------
(* Properties of the pattern derivation, checked under SpecVanity.         *)

(* C12: the strict pattern of a digit string is its linear pattern with    *)
(* the start anchor before it, unless the string begins with the digit of  *)
(* the path separator, "1": then the two are equal.  The linear pattern    *)
(* has no anchor.                                                           *)
C12_StrictIsAnchoredLinear ==
  (derived["strict"] # <<>> /\ derived["linear"] # <<>>) =>
    /\ \A i \in DOMAIN derived["linear"] : derived["linear"][i] # "^"
    /\ IF typed # <<>> /\ typed[1] = "1"
       THEN derived["strict"] = derived["linear"]
       ELSE derived["strict"] = <<"^">> \o derived["linear"]

C12_Witness ==
  /\ typed = <<"1", "2">>
  /\ derived["strict"] = <<"/", "[ABC]">>
  /\ derived["linear"] = derived["strict"]

(* C13: in every mode the pattern derived from "00" matches the key        *)
(* "abXYZcd".                                                               *)
C13_DoubleZeroMatchesAnyKey ==
  \A mode \in DOMAIN derived :
    (typed = <<"0", "0">> /\ derived[mode] # <<>>) =>
      Search(derived[mode], <<"a", "b", "X", "Y", "Z", "c", "d">>)

(* C27: when no digit of the typed string is "1", the linear and the      *)
(* strict pattern end with the tokens ".*/" after one token for each digit, *)
(* the fuzzy pattern ends with "/" directly after the ".*" of its last      *)
(* digit, and a key that the pattern matches has a separator; when the      *)
(* string has a "1", the pattern is the tokens of the digits and nothing    *)
(* more: its separators are those of the digits "1".                        *)
C27_SeparatorSuffix ==
  \A mode \in DOMAIN derived :
    derived[mode] # <<>> =>
      LET r == IF derived[mode][1] = "^" THEN Tail(derived[mode])
               ELSE derived[mode]
          n == Len(r)
          ones == Cardinality({i \in DOMAIN typed : typed[i] = "1"})
          seps == Cardinality({i \in DOMAIN r : r[i] = "/"})
          each == IF mode = "fuzzy" THEN 3 ELSE 1
      IN IF ones = 0
         THEN /\ seps = 1 /\ r[n] = "/"
              /\ n = each * Len(typed) + (IF mode = "fuzzy" THEN 1 ELSE 3)
              /\ (mode # "fuzzy" \/ typed # <<>>) =>
                   SubSeq(r, n - 2, n) = <<".", "*", "/">>
              /\ \A k \in DOMAIN LibraryKeys :
                   Search(derived[mode], LibraryKeys[k]) =>
                     \E j \in DOMAIN LibraryKeys[k] : LibraryKeys[k][j] = "/"
         ELSE /\ seps = ones
              /\ n = each * Len(typed)

(* "20" has no "1": the linear pattern is [ABC]..*/ and the fuzzy pattern *)
(* is [ABC].*..*/                                                          *)
C27_Witness ==
  /\ typed = <<"2", "0">>
  /\ derived["linear"] = <<"[ABC]", ".", ".", "*", "/">>
  /\ derived["fuzzy"] = <<"[ABC]", ".", "*", ".", ".", "*", "/">>

(* the keys the fuzzy patterns are tried on: those of the library and     *)
(* some with characters between, before and after the matching ones        *)
ProbeKeys ==
  {LibraryKeys[k] : k \in DOMAIN LibraryKeys}
    \cup {<<"a", "x", "b", "/">>, <<"/", "a", "B">>, <<"c", "/", "x", "/">>,
          <<"x", "/">>, <<"C">>, <<>>}

(* character c is of the class of digit d, whatever its case *)
OfDigit(d, c) ==
  CASE d = "0" -> TRUE
    [] d = "1" -> c = "/"
    [] d = "2" -> c \in {"a", "b", "c", "A", "B", "C"}
    [] OTHER -> FALSE

(* key has characters of the classes of the digits, in their order, at     *)
(* increasing positions, and after the last of them a separator when no    *)
(* digit is "1"                                                            *)
ContainsInOrder(digits, key) ==
  \E p \in [DOMAIN digits -> DOMAIN key] :
    /\ \A i \in DOMAIN digits : OfDigit(digits[i], key[p[i]])
    /\ \A i, j \in DOMAIN digits : i < j => p[i] < p[j]
    /\ (\A i \in DOMAIN digits : digits[i] # "1") =>
         \E s \in DOMAIN key :
           key[s] = "/" /\ \A i \in DOMAIN digits : p[i] < s

(* C28: the fuzzy pattern is, for each typed digit in order, the class of  *)
(* the digit and then ".*", with a "/" at its end when no digit is "1",    *)
(* and no anchor; it matches a key exactly when the key has characters of  *)
(* the digits' classes, in either case, in the typed order with any        *)
(* characters between them, and after them a separator when no digit is    *)
(* "1".                                                                     *)
C28_FuzzyPatternAndMatches ==
  derived["fuzzy"] # <<>> =>
    LET r == derived["fuzzy"]
        n == Len(typed)
        dir == \A i \in DOMAIN typed : typed[i] # "1"
    IN /\ Len(r) = 3 * n + (IF dir THEN 1 ELSE 0)
       /\ \A i \in DOMAIN typed :
            /\ r[3 * i - 2] = REGEX_MAP[typed[i]]
            /\ r[3 * i - 1] = "." /\ r[3 * i] = "*"
       /\ dir => r[Len(r)] = "/"
       /\ \A key \in ProbeKeys :
            Search(r, key) <=> ContainsInOrder(typed, key)

(* "22" in fuzzy mode matches "axb/", which the linear pattern does not *)
C28_Witness ==
  /\ typed = <<"2", "2">>
  /\ derived["fuzzy"] = <<"[ABC]", ".", "*", "[ABC]", ".", "*", "/">>
  /\ Search(derived["fuzzy"], <<"a", "x", "b", "/">>)
  /\ derived["linear"] # <<>>
  /\ ~Search(derived["linear"], <<"a", "x", "b", "/">>)

(* C29: a digit typed after a string narrows the matches: in every mode,  *)
(* each key of the library that the pattern of the longer string matches   *)
(* is matched by the pattern derived from the string before the digit.     *)
C29_ExtendingNarrows ==
  [][\A char \in VanityDigits : VanityType(char) =>
       \A mode \in DOMAIN derived :
         (derived[mode] # <<>> /\ Compiles(to_regex(typed', mode))) =>
           \A k \in DOMAIN LibraryKeys :
             Search(to_regex(typed', mode), LibraryKeys[k]) =>
               Search(derived[mode], LibraryKeys[k])]_vars

(* C32: in every mode the pattern of the typed digits compiles, and in the *)
(* strict and the linear pattern every "*" comes directly after a ".".      *)
C32_PatternIsWellFormed ==
  \A i \in DOMAIN MODES :
    LET r == to_regex(typed, MODES[i])
    IN /\ Compiles(r)
       /\ MODES[i] # "fuzzy" =>
            \A j \in DOMAIN r : r[j] = "*" => (j > 1 /\ r[j - 1] = ".")

(* the pattern derived in the mode compiles and matches the key *)
PatternMatches(mode, key) ==
  Compiles(derived[mode]) /\ Search(derived[mode], key)

(* C39: once the patterns of the typed digits are derived in the three     *)
(* modes, for every key tried, a key that the strict pattern matches is     *)
(* matched by the linear pattern, and a key that the linear pattern         *)
(* matches is matched by the fuzzy pattern.                                 *)
C39_ModesOrderedByPermissiveness ==
  (\A mode \in DOMAIN derived : derived[mode] # <<>>) =>
    \A key \in ProbeKeys :
      /\ PatternMatches("strict", key) => PatternMatches("linear", key)
      /\ PatternMatches("linear", key) => PatternMatches("fuzzy", key)

----------------------------------------------------------------------------
(* Properties of Library.__init__, checked under SpecLibrary.              *)

(* C20: making a Library never raises; every file entry without a required *)
(* field and every malformed album is counted and is in no album of the    *)
(* library, and every other file entry is a track of an album.             *)
C20_MalformedCountedAndExcluded ==
  library.pc # "idle" =>
    /\ library.pc = "loaded"
    /\ \A album \in library.albums : ~_check_tracks(album.tracks)
    /\ \A i \in DOMAIN library.data :
         LET item == library.data[i]
         IN (item.file # "" /\ MissingRequired(item)) =>
              \A album \in library.albums :
                \A j \in DOMAIN album.tracks : album.tracks[j].file # item.file
    /\ library.errors >=
         Cardinality({i \in DOMAIN library.data :
                        library.data[i].file # ""
                        /\ MissingRequired(library.data[i])})

----------------------------------------------------------------------------
(* Properties of the number pad, checked under SpecPad.                    *)

(* C21: the key remembered for repeat is always a number-pad key; repeat   *)
(* ends, and the number-pad action it invokes is that of the number-pad    *)
(* key pressed last, or of "+" when none was pressed.                      *)
C21_RepeatInvokesLastNumber ==
  /\ pad._repeat_char \in NumberPad
  /\ pad.exc # "RecursionError"
  /\ (pad.pc = "flush" /\ pad._input_char = "p") =>
       pad.invoked = IF pad.pressed = "none" THEN "+" ELSE pad.pressed

----------------------------------------------------------------------------
(* Properties of Client.play_album, play_random and play_recent, checked   *)
(* under SpecBackend.                                                      *)

(* the commands of a call that plays the album *)
CommandsOf(album) ==
  <<[cmd |-> "clear", arg |-> ""]>>
    \o [i \in DOMAIN AlbumFiles[album] |->
          [cmd |-> "add", arg |-> AlbumFiles[album][i]]]
    \o <<[cmd |-> "play", arg |-> ""]>>

(* C40: the commands a call has sent are the beginning of clear, one add   *)
(* for each file of the chosen album in the order of its tracks, play; a   *)
(* call that returned has sent all of them, and the server then plays and  *)
(* its queue is the files of the album in that order.  A call of           *)
(* play_random with genres that no album of the library has never sends a  *)
(* command: it ends by a failure with the queue and the state of the       *)
(* server as they were.                                                    *)
C40_ClearAddPlay ==
  /\ backend.album # 0 =>
       /\ backend.album \in backend.from
       /\ Len(backend.sent) <= Len(CommandsOf(backend.album))
       /\ backend.sent = SubSeq(CommandsOf(backend.album), 1, Len(backend.sent))
  /\ backend.album = 0 => (backend.sent = <<>> /\ backend.queue = backend.before)
  /\ backend.pc = "done" =>
       /\ backend.album # 0
       /\ backend.sent = CommandsOf(backend.album)
       /\ backend.queue = AlbumFiles[backend.album]
       /\ backend.state = "play"
  /\ (/\ backend.method = "play_random" /\ backend.arg.given
      /\ \A a \in 1..NAlbums : LibraryGenres[a] \cap backend.arg.genres = {})
       => /\ backend.pc \in {"connect", "failed"}
          /\ backend.album = 0
          /\ backend.sent = <<>>
          /\ backend.queue = backend.before

(* play_random returned after the queue held the two files of album 1: the *)
(* queue is the one file of album 2                                        *)
C40_Witness ==
  /\ backend.pc = "done" /\ backend.method = "play_random"
  /\ backend.before = AlbumFiles[1]
  /\ backend.album = 2 /\ backend.queue = <<"bad/1">>
  /\ backend.state = "play" /\ Len(backend.sent) = 3

====
